---- MODULE Spec2Model ----
(***************************************************************************)
(* Model of CodeExecutionService.executeNotebookBlocks                     *)
(* (src/src/services/codeExecutionService.ts): one batch of code cells run *)
(* against one kernel WebSocket.  The handlers ws.onopen, ws.onmessage,    *)
(* ws.onerror and ws.onclose are the actions; the kernel gateway and the   *)
(* transport are the environment and choose which signal fires next.       *)
(*                                                                         *)
(* Strings are modelled as sequences of tokens: concatenation is \o, the   *)
(* empty string is << >> (the only falsy string), and "\n" is the token    *)
(* NL.  Cell ids and message ids are opaque strings in the code; here a    *)
(* cell id is a number and the k-th generated message id                   *)
(* (`msg-${Date.now()}-${Math.random()}`) is MsgId(k).                     *)
(***************************************************************************)
EXTENDS Integers, Sequences, FiniteSets, TLC

VARIABLES
    codeBlocks,         \* the caller's cells: Seq of [id, code, hasError]
    onOutput,           \* TRUE iff the optional onOutput callback was supplied
    ws,                 \* WebSocket: "none" | "connecting" | "open" | "closing" | "closed"
    currentBlockIndex,  \* 0-based index of the cell being processed
    messageStatus,      \* Map msg_id -> [done, output]
    results,            \* Map cell id -> output
    promise,            \* [state, value, reason] of the returned promise
    sent,               \* messages passed to ws.send, in order
    msgCounter,         \* number of message ids generated so far
    outputCalls,        \* calls of onOutput, in order: Seq of [blockId, output]
    closeCalls,         \* number of ws.close() calls made by the coordinator
    idleProcessed,      \* msg ids for which an idle status reached the status branch
    received,           \* per msg id, the output messages processed while it was not done
    errorFired,         \* TRUE iff the transport's error signal has fired
    threw,              \* TRUE iff the last onmessage invocation raised an exception
    nMatched,           \* number of inbound messages that passed the parent-id guard
    nIgnored,           \* number of inbound messages dropped by the parent-id guard
    caller,             \* who made the call: [entry, onOutput], see Callers
    tally,              \* counts of delivered payloads by kind: [errors, idleAgain, malformed]
    client,             \* the last call of a stateless operation: [op, input, outcome]
    pair,               \* two runs on one kernel channel: [started, delivered, run, solo]
    ai                  \* the useAIProviders composable and its environment, see NoProviders

vars == << codeBlocks, onOutput, ws, currentBlockIndex, messageStatus, results,
           promise, sent, msgCounter, outputCalls, closeCalls, idleProcessed,
           received, errorFired, threw, nMatched, nIgnored, caller, tally, client, pair, ai, ai >>

\* The state of one executeNotebookBlocks call.
batchVars == << codeBlocks, onOutput, ws, currentBlockIndex, messageStatus, results,
                promise, sent, msgCounter, outputCalls, closeCalls, idleProcessed,
                received, errorFired, threw, nMatched, nIgnored, caller, tally >>

(***************************************************************************)
(* Bounds of the model: the longest batch, and the number of inbound       *)
(* messages (matched or not) delivered to one batch; the longest code      *)
(* string given to the message codec; the number of messages on a kernel   *)
(* channel that two runs share.                                            *)
(***************************************************************************)
MaxCells == 3
MaxMessages == 3
MaxCodeLen == 3
MaxShared == 3

(***************************************************************************)
(* Strings.                                                                *)
(***************************************************************************)
NL == "\n"

RECURSIVE Join(_, _)
\* Array.prototype.join: the elements separated by sep.
Join(arr, sep) ==
    IF arr = << >> THEN << >>
    ELSE IF Len(arr) = 1 THEN arr[1]
    ELSE arr[1] \o sep \o Join(Tail(arr), sep)

\* haystack.includes(needle)
Contains(haystack, needle) ==
    \E i \in 0..(Len(haystack) - Len(needle)) :
        \A j \in 1..Len(needle) : haystack[i + j] = needle[j]

(***************************************************************************)
(* Message Codec.                                                          *)
(***************************************************************************)
\* The k-th id produced by `msg-${Date.now()}-${Math.random()}`.
MsgId(k) == << "msg", k >>

\* parent_header without msg_id (parent_header: {} or no parent_header).
NoParent == << >>

\* An id of unrelated traffic on the same multiplexed channel.
ForeignId == << "foreign", 0 >>

\* The object literal {}.
EmptyObject == << >>

createExecuteRequestMessage(code, k) ==
    [ header        |-> [ msg_id   |-> MsgId(k),
                          username |-> "bashbook",
                          session  |-> MsgId(k),
                          msg_type |-> "execute_request",
                          version  |-> "5.0" ],
      parent_header |-> EmptyObject,
      metadata      |-> EmptyObject,
      content       |-> [ code             |-> code,
                          silent           |-> FALSE,
                          store_history    |-> TRUE,
                          user_expressions |-> EmptyObject,
                          allow_stdin      |-> FALSE ],
      channel       |-> "shell" ]

(***************************************************************************)
(* Inbound messages, as JSON.parse(event.data) yields them: msg_type is    *)
(* header.msg_type, parent is parent_header.msg_id, content is content.    *)
(* A field that is absent (or the empty string) is << >>.                  *)
(***************************************************************************)
NoContent ==
    [ text |-> << >>, plain |-> << >>, html |-> << >>, png |-> << >>,
      ename |-> << >>, evalue |-> << >>, traceback |-> << >>,
      execution_state |-> "" ]

StreamMsg(text) ==
    [ msg_type |-> "stream", content |-> [NoContent EXCEPT !.text = text] ]

DataMsg(type, plain, html, png) ==
    [ msg_type |-> type,
      content  |-> [NoContent EXCEPT !.plain = plain, !.html = html, !.png = png] ]

ErrorMsg(ename, evalue, traceback) ==
    [ msg_type |-> "error",
      content  |-> [NoContent EXCEPT !.ename = ename, !.evalue = evalue,
                                     !.traceback = traceback] ]

StatusMsg(state) ==
    [ msg_type |-> "status", content |-> [NoContent EXCEPT !.execution_state = state] ]

OtherMsg(type) == [ msg_type |-> type, content |-> NoContent ]

\* The message bodies the kernel gateway delivers in this model.
Bodies ==
    { StreamMsg(<< "a" >>), StreamMsg(<< >>),
      DataMsg("execute_result", << "b" >>, << >>, << >>),
      DataMsg("display_data", << "p" >>, << "h" >>, << "i" >>),
      ErrorMsg(<< "ValueError" >>, << "bad" >>, << << "line1" >>, << "line2" >> >>),
      StatusMsg("idle"), StatusMsg("busy"),
      OtherMsg("execute_input") }

WithParent(body, parent) ==
    [ msg_type |-> body.msg_type, parent |-> parent, content |-> body.content ]

(***************************************************************************)
(* The fragment (newOutput) each message type contributes.                 *)
(***************************************************************************)
\* case 'stream': content.text || ''
StreamFragment(content) == content.text

\* Mutant: text/html is put before text/plain.
DataFragment_HtmlFirst(content) ==
       (IF content.html # << >> THEN content.html \o << NL >> ELSE << >>)
    \o (IF content.plain # << >> THEN content.plain \o << NL >> ELSE << >>)
    \o (IF content.png # << >>
        THEN << "<img src=\"data:image/png;base64," >> \o content.png
             \o << "\" />" >> \o << NL >>
        ELSE << >>)

\* case 'execute_result' / 'display_data'
DataFragment(content) ==
       (IF content.plain # << >> THEN content.plain \o << NL >> ELSE << >>)
    \o (IF content.html # << >> THEN content.html \o << NL >> ELSE << >>)
    \o (IF content.png # << >>
        THEN << "<img src=\"data:image/png;base64," >> \o content.png
             \o << "\" />" >> \o << NL >>
        ELSE << >>)

\* Mutant: the traceback lines are joined without a separator.
ErrorFragment_NoSeparator(content) ==
    << "Error: " >> \o content.ename \o << NL >> \o content.evalue \o << NL >>
    \o Join(content.traceback, << >>)

\* case 'error'
ErrorFragment(content) ==
    << "Error: " >> \o content.ename \o << NL >> \o content.evalue \o << NL >>
    \o Join(content.traceback, << NL >>)

OutputTypes == { "stream", "execute_result", "display_data", "error" }

NewOutput(msg) ==
    CASE msg.msg_type = "stream" -> StreamFragment(msg.content)
      [] msg.msg_type \in { "execute_result", "display_data" } -> DataFragment(msg.content)
      [] msg.msg_type = "error" -> ErrorFragment(msg.content)
      [] OTHER -> << >>

(***************************************************************************)
(* The promise returned by executeNotebookBlocks: settled at most once.    *)
(***************************************************************************)
Pending == [ state |-> "pending", value |-> << >>, reason |-> "" ]

Resolve(p, value) ==
    IF p.state = "pending"
    THEN [ state |-> "resolved", value |-> value, reason |-> "" ]
    ELSE p

Reject(p, reason) ==
    IF p.state = "pending"
    THEN [ state |-> "rejected", value |-> << >>, reason |-> reason ]
    ELSE p

WebSocketError == "WebSocket error"
ClosedBeforeCompleted == "WebSocket closed before execution completed"

(***************************************************************************)
(* The batches a caller may pass: for each length up to MaxCells, the one  *)
(* with pairwise distinct cell ids (1, 2, ...) and, from length 2 on, one   *)
(* whose cells all carry the same id.  The code of the k-th cell is         *)
(* << "code", k >>.  hasError is an optional field of CodeBlock:            *)
(* "undefined" when the caller left it out (as executeCode does) and        *)
(* "false" when the caller cleared it before the run.                       *)
(***************************************************************************)
HasErrorValues == { "undefined", "false" }

IdSeqs ==
    { [ k \in 1..n |-> k ] : n \in 0..MaxCells }
    \cup { [ k \in 1..n |-> 1 ] : n \in 2..MaxCells }

Batch(ids, h) ==
    [ k \in 1..Len(ids) |-> [ id |-> ids[k], code |-> << "code", k >>, hasError |-> h ] ]

Batches == { Batch(ids, h) : ids \in IdSeqs, h \in HasErrorValues }

\* executeCode calls executeNotebookBlocks with the one synthetic cell
\* { id: 'single', notebookId: 'temp', code } and always passes a callback,
\* (_, output) => onOutput?.(output), around its own optional onOutput.
SingleCell == << [ id |-> "single", code |-> << "code", 1 >>, hasError |-> "undefined" ] >>

\* Who calls executeNotebookBlocks: a caller of its own, or executeCode on
\* behalf of a caller that did or did not pass onOutput to executeCode.
Callers ==
    { [ entry |-> "executeNotebookBlocks", onOutput |-> FALSE ] }
    \cup { [ entry |-> "executeCode", onOutput |-> u ] : u \in BOOLEAN }

\* No stateless operation has been called.
NoCall == [ op |-> "none", input |-> << >>, outcome |-> << >> ]

\* The closure state of one call, before new WebSocket(...).
NewRun(blocks, callback, firstId) ==
    [ codeBlocks |-> blocks, onOutput |-> callback, ws |-> "connecting",
      currentBlockIndex |-> 0, messageStatus |-> << >>, results |-> << >>,
      promise |-> Pending, sent |-> << >>, msgCounter |-> firstId,
      outputCalls |-> << >>, closeCalls |-> 0, threw |-> FALSE ]

\* The two calls.
Runs == { 1, 2 }

\* No second run: both closures are unused.
NoRuns ==
    [ started |-> FALSE, delivered |-> 0,
      run  |-> [ r \in Runs |-> NewRun(<< >>, FALSE, 0) ],
      solo |-> [ r \in Runs |-> NewRun(<< >>, FALSE, 0) ] ]

\* No pass is running.
NoPass == [ list |-> << >>, next |-> 0, forSelect |-> FALSE ]

\* No selectBestAvailableProvider call has decided yet.
NoSelection == [ decided |-> FALSE, duringPass |-> FALSE, returned |-> "" ]

\* Before useAIProviders() is called: no composable, no environment.
NoProviders ==
    [ built |-> FALSE, providers |-> << >>, isAvailable |-> << >>,
      serviceModel |-> "", preferredProviderId |-> "",
      currentWebLLMModel |-> "", isCheckingProviders |-> FALSE,
      availableProviders |-> << >>, pass |-> NoPass, selected |-> NoSelection,
      calls |-> 0 ]

UniqueIds(blocks) ==
    \A i, j \in 1..Len(blocks) : blocks[i].id = blocks[j].id => i = j

(***************************************************************************)
(* executeNotebookBlocks.                                                  *)
(***************************************************************************)
\* Before the call: the caller holds a batch and, optionally, a callback.
Init ==
    /\ caller \in Callers
    /\ IF caller.entry = "executeCode"
       THEN codeBlocks = SingleCell /\ onOutput = TRUE
       ELSE codeBlocks \in Batches /\ onOutput \in BOOLEAN
    /\ tally = [ errors |-> 0, idleAgain |-> 0, malformed |-> 0, fragments |-> 0 ]
    /\ client = NoCall
    /\ pair = NoRuns
    /\ ai = NoProviders
    /\ ws = "none"
    /\ currentBlockIndex = 0
    /\ messageStatus = << >>
    /\ results = << >>
    /\ promise = Pending
    /\ sent = << >>
    /\ msgCounter = 0
    /\ outputCalls = << >>
    /\ closeCalls = 0
    /\ idleProcessed = { }
    /\ received = << >>
    /\ errorFired = FALSE
    /\ threw = FALSE
    /\ nMatched = 0
    /\ nIgnored = 0

\* The promise executor: new WebSocket(...), the state of the closure, and
\* the four handlers installed.
Call ==
    /\ ws = "none"
    /\ ws' = "connecting"
    /\ UNCHANGED << codeBlocks, onOutput, caller, tally, client, pair, ai, currentBlockIndex,
                    messageStatus, results,
                    promise, sent, msgCounter, outputCalls, closeCalls,
                    idleProcessed, received, errorFired, threw, nMatched, nIgnored >>

\* codeBlocks[i] of the code, for the 0-based index i.
BlockAt(blocks, i) == blocks[i + 1]

\* Mutant: a batch of one cell is not sent.
SendsOnOpen_MoreThanOne(blocks) == Len(blocks) > 1

\* if (codeBlocks.length > 0) in ws.onopen
SendsOnOpen(blocks) == Len(blocks) > 0

\* ws.onopen
OnOpen ==
    /\ ws = "connecting"
    /\ ws' = "open"
    /\ IF SendsOnOpen(codeBlocks)
       THEN LET message == createExecuteRequestMessage(
                               BlockAt(codeBlocks, currentBlockIndex).code,
                               msgCounter + 1)
            IN  /\ msgCounter' = msgCounter + 1
                /\ messageStatus' =
                       (message.header.msg_id :> [ done |-> FALSE, output |-> << >> ])
                       @@ messageStatus
                /\ sent' = Append(sent, message)
       ELSE UNCHANGED << msgCounter, messageStatus, sent >>
    /\ UNCHANGED << codeBlocks, onOutput, caller, tally, client, pair, ai, currentBlockIndex,
                    results, promise,
                    outputCalls, closeCalls, idleProcessed, received, errorFired,
                    threw, nMatched, nIgnored >>

\* Mutant: the guard only tests that a parent id is present.
Matched_ParentOnly(msg, status) == msg.parent # NoParent

\* if (!parentMsgId || !messageStatus.has(parentMsgId)) return
Matched(msg, status) == msg.parent # NoParent /\ msg.parent \in DOMAIN status

\* Mutant: any status message of a request that is not done completes it.
IdleCompletes_AnyState(content, status) == ~status.done

\* Mutant: an idle status completes the request again when it is already done.
IdleCompletes_NoDoneCheck(content, status) == content.execution_state = "idle"

\* content.execution_state === 'idle' && !status.done
IdleCompletes(content, status) == content.execution_state = "idle" /\ ~status.done

\* Mutant: the last cell is never sent.
HasNextBlock_OffByOne(index, blocks) == index + 1 < Len(blocks)

\* currentBlockIndex < codeBlocks.length, after currentBlockIndex++
HasNextBlock(index, blocks) == index < Len(blocks)

\* Mutant: the results are built from the cells that have an entry in the map.
ResolvedValue_OnlyStored(blocks, res) ==
    LET stored == SelectSeq(blocks, LAMBDA b : b.id \in DOMAIN res /\ res[b.id] # << >>)
    IN  [ k \in 1..Len(stored) |->
            [ id |-> stored[k].id, hasError |-> stored[k].hasError,
              output |-> res[stored[k].id] ] ]

\* The value the promise resolves with.
ResolvedValue(blocks, res) ==
    [ k \in 1..Len(blocks) |->
        [ id       |-> blocks[k].id,
          hasError |-> blocks[k].hasError,
          output   |-> IF blocks[k].id \in DOMAIN res THEN res[blocks[k].id] ELSE << >> ] ]

\* results.set(id, output)
MapSet(map, key, value) == [ k \in DOMAIN map \cup { key } |-> IF k = key THEN value ELSE map[k] ]

\* Mutant: the coordinator never closes the socket.
CloseSocket_Never(state) == state

\* ws.close(): a no-op unless the socket is connecting or open.
CloseSocket(state) == IF state \in { "connecting", "open" } THEN "closing" ELSE state

\* The output messages logged for the request id, in arrival order.
ReceivedFor(log, id) == IF id \in DOMAIN log THEN log[id] ELSE << >>

\* A message dropped by the guard: the handler returns at once.
IgnoreMessage ==
    /\ nMatched + nIgnored + tally.malformed < MaxMessages
    /\ nIgnored' = nIgnored + 1
    /\ threw' = FALSE
    /\ UNCHANGED << codeBlocks, onOutput, caller, tally, client, pair, ai, ws,
                    currentBlockIndex, messageStatus,
                    results, promise, sent, msgCounter, outputCalls, closeCalls,
                    idleProcessed, received, errorFired, nMatched >>

\* Mutant: the notification always names the first cell.
CallOnOutput_FirstBlock(calls, blocks, index, newOutput) ==
    Append(calls, [ blockId |-> BlockAt(blocks, 0).id, output |-> newOutput ])

\* The onOutput call at the end of the handler, for the fragment newOutput.
CallOnOutput(calls, blocks, index, newOutput) ==
    Append(calls, [ blockId |-> BlockAt(blocks, index).id, output |-> newOutput ])

\* Mutant: the fragment replaces what the request has accumulated.
AppendOutput_Overwrite(status, newOutput) == [ status EXCEPT !.output = newOutput ]

\* status.output += newOutput
AppendOutput(status, newOutput) == [ status EXCEPT !.output = status.output \o newOutput ]

\* The body of ws.onmessage past the guard.  A statement that dereferences
\* codeBlocks[currentBlockIndex] when the index is past the end, or the
\* status of an id the map does not hold, raises a TypeError: the handler
\* stops there, keeping what it has written so far.
ProcessMessage(msg) ==
    LET id        == msg.parent
        type      == msg.msg_type
        known     == id \in DOMAIN messageStatus
        status    == messageStatus[id]
        newOutput == NewOutput(msg)
        inRange   == currentBlockIndex < Len(codeBlocks)
        appended  == AppendOutput(status, newOutput)
        isIdle    == type = "status" /\ msg.content.execution_state = "idle"
    IN
    /\ nMatched + nIgnored + tally.malformed < MaxMessages
    /\ nMatched' = nMatched + 1
    /\ idleProcessed' = IF known /\ isIdle THEN idleProcessed \cup { id } ELSE idleProcessed
    /\ received' = IF known /\ type \in OutputTypes /\ ~status.done
                   THEN MapSet(received, id, Append(ReceivedFor(received, id), msg))
                   ELSE received
    /\ tally' = [ tally EXCEPT
                     !.errors = IF known /\ type = "error" THEN @ + 1 ELSE @,
                     !.idleAgain = IF known /\ isIdle /\ status.done THEN @ + 1 ELSE @,
                     !.fragments = IF known /\ newOutput # << >> THEN @ + 1 ELSE @ ]
    /\ UNCHANGED << onOutput, caller, client, pair, ai, errorFired, nIgnored >>
    /\ CASE ~known ->
              \* messageStatus.get(parentMsgId)! is undefined
              /\ threw' = (type \in OutputTypes \cup { "status" })
              /\ UNCHANGED << codeBlocks, ws, currentBlockIndex, messageStatus, results,
                              promise, sent, msgCounter, outputCalls, closeCalls >>
         [] known /\ type \in { "stream", "execute_result", "display_data" } ->
              /\ messageStatus' = [ messageStatus EXCEPT ![id] = appended ]
              /\ IF newOutput # << >> /\ onOutput
                 THEN IF inRange
                      THEN /\ outputCalls' = CallOnOutput(outputCalls, codeBlocks,
                                                          currentBlockIndex, newOutput)
                           /\ threw' = FALSE
                      ELSE /\ threw' = TRUE
                           /\ UNCHANGED outputCalls
                 ELSE /\ threw' = FALSE
                      /\ UNCHANGED outputCalls
              /\ UNCHANGED << codeBlocks, ws, currentBlockIndex, results, promise,
                              sent, msgCounter, closeCalls >>
         [] known /\ type = "error" ->
              /\ messageStatus' = [ messageStatus EXCEPT ![id] = appended ]
              /\ IF inRange
                 THEN /\ codeBlocks' = [ codeBlocks EXCEPT
                                           ![currentBlockIndex + 1].hasError = "true" ]
                      /\ outputCalls' =
                             IF newOutput # << >> /\ onOutput
                             THEN CallOnOutput(outputCalls, codeBlocks,
                                               currentBlockIndex, newOutput)
                             ELSE outputCalls
                      /\ threw' = FALSE
                 ELSE /\ threw' = TRUE
                      /\ UNCHANGED << codeBlocks, outputCalls >>
              /\ UNCHANGED << ws, currentBlockIndex, results, promise, sent,
                              msgCounter, closeCalls >>
         [] known /\ type = "status" /\ IdleCompletes(msg.content, status) ->
              IF inRange
              THEN LET next == currentBlockIndex + 1 IN
                   /\ results' = MapSet(results,
                                        BlockAt(codeBlocks, currentBlockIndex).id,
                                        status.output)
                   /\ currentBlockIndex' = next
                   /\ threw' = FALSE
                   /\ IF HasNextBlock(next, codeBlocks)
                      THEN LET nextMessage == createExecuteRequestMessage(
                                                  BlockAt(codeBlocks, next).code,
                                                  msgCounter + 1)
                           IN  /\ msgCounter' = msgCounter + 1
                               /\ messageStatus' =
                                      (nextMessage.header.msg_id :>
                                           [ done |-> FALSE, output |-> << >> ])
                                      @@ [ messageStatus EXCEPT ![id].done = TRUE ]
                               /\ sent' = Append(sent, nextMessage)
                               /\ UNCHANGED << ws, closeCalls, promise >>
                      ELSE /\ messageStatus' = [ messageStatus EXCEPT ![id].done = TRUE ]
                           /\ ws' = CloseSocket(ws)
                           /\ closeCalls' = closeCalls + 1
                           /\ promise' = Resolve(promise,
                                                 ResolvedValue(codeBlocks, results'))
                           /\ UNCHANGED << sent, msgCounter >>
                   /\ UNCHANGED << codeBlocks, outputCalls >>
              ELSE \* results.set(codeBlocks[currentBlockIndex].id, ...) raises
                   /\ messageStatus' = [ messageStatus EXCEPT ![id].done = TRUE ]
                   /\ threw' = TRUE
                   /\ UNCHANGED << codeBlocks, ws, currentBlockIndex, results, promise,
                                   sent, msgCounter, outputCalls, closeCalls >>
         [] OTHER ->
              /\ threw' = FALSE
              /\ UNCHANGED << codeBlocks, ws, currentBlockIndex, messageStatus, results,
                              promise, sent, msgCounter, outputCalls, closeCalls >>

\* ws.onmessage, for the parsed message msg.  The handler stays installed
\* and does not look at ws.readyState, so it also runs for a message that
\* is delivered after the coordinator's own ws.close().
OnMessage(msg) ==
    /\ ws \in { "open", "closing" }
    /\ IF Matched(msg, messageStatus) THEN ProcessMessage(msg) ELSE IgnoreMessage

\* Mutant: a payload that does not parse fails the batch.
OnMalformedMessage_Rejects ==
    /\ ws \in { "open", "closing" }
    /\ nMatched + nIgnored + tally.malformed < MaxMessages
    /\ tally' = [ tally EXCEPT !.malformed = @ + 1 ]
    /\ threw' = FALSE
    /\ promise' = Reject(promise, "Invalid message")
    /\ UNCHANGED << codeBlocks, onOutput, caller, client, pair, ai, ws, currentBlockIndex,
                    messageStatus, results, sent, msgCounter, outputCalls,
                    closeCalls, idleProcessed, received, errorFired, nMatched,
                    nIgnored >>

\* ws.onmessage for a payload that is not JSON: JSON.parse(event.data)
\* raises a SyntaxError on the first line of the handler, which nothing
\* catches; the handler stays installed.
OnMalformedMessage ==
    /\ ws \in { "open", "closing" }
    /\ nMatched + nIgnored + tally.malformed < MaxMessages
    /\ tally' = [ tally EXCEPT !.malformed = @ + 1 ]
    /\ threw' = TRUE
    /\ UNCHANGED << codeBlocks, onOutput, caller, client, pair, ai, ws, currentBlockIndex,
                    messageStatus, results, promise, sent, msgCounter, outputCalls,
                    closeCalls, idleProcessed, received, errorFired, nMatched,
                    nIgnored >>

\* Mutant: the error is logged and swallowed.
ErrorRejects_Swallowed(p) == p

\* reject(new Error('WebSocket error'))
ErrorRejects(p) == Reject(p, WebSocketError)

\* ws.onerror: the error signal fires at most once per socket and does not
\* by itself close it.
OnError ==
    /\ ws \in { "connecting", "open", "closing" }
    /\ ~errorFired
    /\ errorFired' = TRUE
    /\ promise' = ErrorRejects(promise)
    /\ UNCHANGED << codeBlocks, onOutput, caller, tally, client, pair, ai, ws,
                    currentBlockIndex, messageStatus,
                    results, sent, msgCounter, outputCalls, closeCalls,
                    idleProcessed, received, threw, nMatched, nIgnored >>

\* Mutant: the close handler compares with <=.
ClosedEarly_Inclusive(index, blocks) == index <= Len(blocks)

\* if (currentBlockIndex < codeBlocks.length) in ws.onclose
ClosedEarly(index, blocks) == index < Len(blocks)

\* ws.onclose
OnClose ==
    /\ ws \in { "connecting", "open", "closing" }
    /\ ws' = "closed"
    /\ promise' = IF ClosedEarly(currentBlockIndex, codeBlocks)
                  THEN Reject(promise, ClosedBeforeCompleted)
                  ELSE promise
    /\ UNCHANGED << codeBlocks, onOutput, caller, tally, client, pair, ai, currentBlockIndex,
                    messageStatus, results,
                    sent, msgCounter, outputCalls, closeCalls, idleProcessed,
                    received, errorFired, threw, nMatched, nIgnored >>

(***************************************************************************)
(* JSON, as JSON.stringify writes it and JSON.parse reads it.  A JSON      *)
(* value is [t, v]: a string (its characters), a boolean, null, an object  *)
(* (its members [key, val] in insertion order) or an array (its elements). *)
(* The text is a sequence of tokens: the punctuation, the literals true,   *)
(* false and null, and inside a string literal one token per character.    *)
(***************************************************************************)
DQ == "\""
BS == "\\"

JStr(chars) == [ t |-> "str", v |-> chars ]
JBool(b) == [ t |-> "bool", v |-> b ]
JObj(members) == [ t |-> "obj", v |-> members ]
JArr(elements) == [ t |-> "arr", v |-> elements ]
JNull == [ t |-> "null", v |-> << >> ]
Member(key, val) == [ key |-> << key >>, val |-> val ]

\* Mutant: the double quote is written as it is.
EscapeChar_QuoteUnescaped(c) ==
    CASE c = BS -> << BS, BS >>
      [] c = NL -> << BS, "n" >>
      [] OTHER  -> << c >>

\* JSON.stringify's escape of one character of a string.
EscapeChar(c) ==
    CASE c = DQ -> << BS, DQ >>
      [] c = BS -> << BS, BS >>
      [] c = NL -> << BS, "n" >>
      [] OTHER  -> << c >>

RECURSIVE EscapeString(_)
EscapeString(chars) ==
    IF chars = << >> THEN << >>
    ELSE EscapeChar(Head(chars)) \o EscapeString(Tail(chars))

QuoteString(chars) == << DQ >> \o EscapeString(chars) \o << DQ >>

RECURSIVE JsonStringify(_), StringifyMembers(_), StringifyElements(_)
JsonStringify(j) ==
    CASE j.t = "str"  -> QuoteString(j.v)
      [] j.t = "bool" -> << IF j.v THEN "true" ELSE "false" >>
      [] j.t = "null" -> << "null" >>
      [] j.t = "obj"  -> << "{" >> \o StringifyMembers(j.v) \o << "}" >>
      [] j.t = "arr"  -> << "[" >> \o StringifyElements(j.v) \o << "]" >>

StringifyMembers(members) ==
    IF members = << >> THEN << >>
    ELSE QuoteString(Head(members).key) \o << ":" >> \o JsonStringify(Head(members).val)
         \o (IF Len(members) > 1 THEN << "," >> ELSE << >>)
         \o StringifyMembers(Tail(members))

StringifyElements(elements) ==
    IF elements = << >> THEN << >>
    ELSE JsonStringify(Head(elements))
         \o (IF Len(elements) > 1 THEN << "," >> ELSE << >>)
         \o StringifyElements(Tail(elements))

\* A SyntaxError of JSON.parse.
ParseFail == [ ok |-> FALSE, val |-> JNull, next |-> 0 ]

ParseOk(val, next) == [ ok |-> TRUE, val |-> val, next |-> next ]

\* The character an escape sequence \c stands for.
Unescape(c) == IF c = "n" THEN NL ELSE c

RECURSIVE ParseString(_, _, _)
\* The characters of a string literal, from the token after its opening
\* quote; a raw line break inside a literal is a syntax error.
ParseString(toks, pos, acc) ==
    IF pos > Len(toks) \/ toks[pos] = NL THEN ParseFail
    ELSE IF toks[pos] = DQ THEN ParseOk(acc, pos + 1)
    ELSE IF toks[pos] = BS
         THEN IF pos + 1 > Len(toks) \/ toks[pos + 1] \notin { DQ, BS, "n" }
              THEN ParseFail
              ELSE ParseString(toks, pos + 2, Append(acc, Unescape(toks[pos + 1])))
    ELSE ParseString(toks, pos + 1, Append(acc, toks[pos]))

RECURSIVE ParseValue(_, _), ParseMembers(_, _, _), ParseElements(_, _, _)
ParseValue(toks, pos) ==
    IF pos > Len(toks) THEN ParseFail
    ELSE CASE toks[pos] = DQ ->
                LET r == ParseString(toks, pos + 1, << >>)
                IN  IF r.ok THEN ParseOk(JStr(r.val), r.next) ELSE ParseFail
           [] toks[pos] = "true"  -> ParseOk(JBool(TRUE), pos + 1)
           [] toks[pos] = "false" -> ParseOk(JBool(FALSE), pos + 1)
           [] toks[pos] = "null"  -> ParseOk(JNull, pos + 1)
           [] toks[pos] = "{" ->
                IF pos + 1 <= Len(toks) /\ toks[pos + 1] = "}"
                THEN ParseOk(JObj(<< >>), pos + 2)
                ELSE ParseMembers(toks, pos + 1, << >>)
           [] toks[pos] = "[" ->
                IF pos + 1 <= Len(toks) /\ toks[pos + 1] = "]"
                THEN ParseOk(JArr(<< >>), pos + 2)
                ELSE ParseElements(toks, pos + 1, << >>)
           [] OTHER -> ParseFail

\* "key": value, then a comma and more members or the closing brace.
ParseMembers(toks, pos, acc) ==
    IF pos > Len(toks) \/ toks[pos] # DQ THEN ParseFail
    ELSE LET k == ParseString(toks, pos + 1, << >>) IN
         IF ~k.ok \/ k.next > Len(toks) \/ toks[k.next] # ":" THEN ParseFail
         ELSE LET r == ParseValue(toks, k.next + 1) IN
              IF ~r.ok \/ r.next > Len(toks) THEN ParseFail
              ELSE LET members == Append(acc, [ key |-> k.val, val |-> r.val ]) IN
                   IF toks[r.next] = "}" THEN ParseOk(JObj(members), r.next + 1)
                   ELSE IF toks[r.next] = "," THEN ParseMembers(toks, r.next + 1, members)
                   ELSE ParseFail

ParseElements(toks, pos, acc) ==
    LET r == ParseValue(toks, pos) IN
    IF ~r.ok \/ r.next > Len(toks) THEN ParseFail
    ELSE LET elements == Append(acc, r.val) IN
         IF toks[r.next] = "]" THEN ParseOk(JArr(elements), r.next + 1)
         ELSE IF toks[r.next] = "," THEN ParseElements(toks, r.next + 1, elements)
         ELSE ParseFail

\* JSON.parse(text): the value, or ok = FALSE for a SyntaxError.
JsonParse(toks) ==
    LET r == ParseValue(toks, 1)
    IN  IF r.ok /\ r.next = Len(toks) + 1 THEN r ELSE ParseFail

\* The JSON value "undefined" stands for a property that is absent.
Undefined == [ t |-> "undefined", v |-> << >> ]

RECURSIVE GetMember(_, _)
\* obj[key] for the members of a parsed object: the last member wins.
GetMember(members, key) ==
    IF members = << >> THEN Undefined
    ELSE IF members[Len(members)].key = << key >> THEN members[Len(members)].val
    ELSE GetMember(SubSeq(members, 1, Len(members) - 1), key)

\* The characters of a message id.
IdString(id) == << id[1], "-", ToString(id[2]) >>

\* The message as the JSON value JSON.stringify walks, properties in the
\* order the object literal of createExecuteRequestMessage lists them.
MessageToJson(m) ==
    JObj(<< Member("header",
                JObj(<< Member("msg_id", JStr(IdString(m.header.msg_id))),
                        Member("username", JStr(<< m.header.username >>)),
                        Member("session", JStr(IdString(m.header.session))),
                        Member("msg_type", JStr(<< m.header.msg_type >>)),
                        Member("version", JStr(<< m.header.version >>)) >>)),
            Member("parent_header", JObj(m.parent_header)),
            Member("metadata", JObj(m.metadata)),
            Member("content",
                JObj(<< Member("code", JStr(m.content.code)),
                        Member("silent", JBool(m.content.silent)),
                        Member("store_history", JBool(m.content.store_history)),
                        Member("user_expressions", JObj(m.content.user_expressions)),
                        Member("allow_stdin", JBool(m.content.allow_stdin)) >>)),
            Member("channel", JStr(<< m.channel >>)) >>)

\* The characters a code string is made of here: a letter, and the three
\* characters JSON escapes.
CodeChars == { "n", DQ, BS, NL }

CodeStrings == UNION { [ 1..len -> CodeChars ] : len \in 1..MaxCodeLen }

(***************************************************************************)
(* executeCode: what its caller observes of the one-cell batch.            *)
(***************************************************************************)
\* Mutant: a rejected batch is caught and turned into an error result.
ExecuteCodeOutcome_CatchesRejection(p) ==
    IF p.state = "rejected"
    THEN [ state |-> "resolved",
           value |-> [ id |-> "single", hasError |-> "true", output |-> << >> ],
           reason |-> "" ]
    ELSE IF p.state = "resolved"
    THEN [ state |-> "resolved", value |-> p.value[1], reason |-> "" ]
    ELSE p

\* const results = await this.executeNotebookBlocks(...); return results[0]
ExecuteCodeOutcome(p) ==
    IF p.state = "resolved"
    THEN [ state |-> "resolved", value |-> p.value[1], reason |-> "" ]
    ELSE p

\* (_, output) => onOutput?.(output): the calls of executeCode's own
\* onOutput that the calls of the batch callback lead to.
ForwardOutput(userCallback, calls) ==
    IF userCallback THEN [ k \in 1..Len(calls) |-> calls[k].output ] ELSE << >>

\* The messages the gateway may deliver next.
Inbound ==
    { WithParent(body, parent) :
        body \in Bodies, parent \in { NoParent, ForeignId } \cup DOMAIN messageStatus }

Next ==
    \/ Call
    \/ OnOpen
    \/ \E msg \in Inbound : OnMessage(msg)
    \/ OnMalformedMessage
    \/ OnError
    \/ OnClose

Spec == Init /\ [][Next]_vars

(***************************************************************************)
(* Kernel Lifecycle Client: createKernel, deleteKernel, listKernels.       *)
(* What fetch gave: a response (status, statusText, the text of the body)  *)
(* or a rejection, when the server could not be reached.                   *)
(***************************************************************************)
KernelModel ==
    JObj(<< Member("id", JStr(<< "k1" >>)), Member("name", JStr(<< "python3" >>)) >>)

ResponseTexts ==
    { JsonStringify(KernelModel),
      JsonStringify(JArr(<< KernelModel >>)),
      JsonStringify(JObj(<< Member("message", JStr(<< "Kernel does not exist" >>)) >>)),
      << "[", "]" >>,
      << "null" >>,
      << "<html>" >>,
      << "{", DQ, "i", "d" >>,
      << >> }

StatusTexts ==
    (200 :> "OK") @@ (201 :> "Created") @@ (204 :> "No Content")
    @@ (403 :> "Forbidden") @@ (404 :> "Not Found") @@ (500 :> "Internal Server Error")

Responses ==
    { [ fetch |-> "response", status |-> st, statusText |-> StatusTexts[st], text |-> txt ] :
        st \in DOMAIN StatusTexts, txt \in ResponseTexts }

FetchFailed == [ fetch |-> "failed", status |-> 0, statusText |-> "", text |-> << >> ]

\* Response.ok
Ok(response) == response.status \in 200..299

Return(value) == [ kind |-> "return", name |-> "", message |-> << >>, value |-> value ]
Throw(name, message) == [ kind |-> "throw", name |-> name, message |-> message, value |-> Undefined ]

\* The TypeError fetch rejects with.
FailedToFetch == Throw("TypeError", << "Failed to fetch" >>)

InvalidResponseFormat == << "Invalid response format from Jupyter server" >>

createKernel(response) ==
    IF response.fetch = "failed" THEN FailedToFetch
    ELSE IF ~Ok(response)
    THEN Throw("Error",
               << "Failed to create kernel: ", ToString(response.status), " ",
                  response.statusText >>
               \o (IF response.text # << >> THEN << " - " >> \o response.text ELSE << >>))
    ELSE LET data == JsonParse(response.text) IN
         IF ~data.ok \/ data.val.t = "null" THEN Throw("Error", InvalidResponseFormat)
         ELSE IF data.val.t = "obj" THEN Return(GetMember(data.val.v, "id"))
         ELSE Return(Undefined)

deleteKernel(response) ==
    IF response.fetch = "failed" THEN FailedToFetch
    ELSE IF ~Ok(response)
    THEN Throw("Error", << "Failed to delete kernel: ", response.statusText >>)
    ELSE Return(Undefined)

listKernels(response) ==
    IF response.fetch = "failed" THEN FailedToFetch
    ELSE IF ~Ok(response)
    THEN Throw("Error", << "Failed to list kernels: ", response.statusText >>)
    ELSE LET data == JsonParse(response.text) IN
         IF ~data.ok THEN Throw("SyntaxError", << "Unexpected token" >>)
         ELSE Return(data.val)

CreateKernel ==
    \E response \in Responses \cup { FetchFailed } :
        client' = [ op |-> "createKernel", input |-> response,
                    outcome |-> createKernel(response) ]

DeleteKernel ==
    \E response \in Responses \cup { FetchFailed } :
        client' = [ op |-> "deleteKernel", input |-> response,
                    outcome |-> deleteKernel(response) ]

ListKernels ==
    \E response \in Responses \cup { FetchFailed } :
        client' = [ op |-> "listKernels", input |-> response,
                    outcome |-> listKernels(response) ]

\* An execute request for the code goes through ws.send(JSON.stringify(...))
\* and the peer reads it with JSON.parse.
SendAndParse ==
    \E code \in CodeStrings :
        client' = [ op |-> "sendAndParse", input |-> code,
                    outcome |-> JsonParse(JsonStringify(
                                    MessageToJson(createExecuteRequestMessage(code, 1)))) ]

(***************************************************************************)
(* Two runs of executeNotebookBlocks on one kernel.  Each call has its own *)
(* socket and its own closure state (a run); the kernel broadcasts every   *)
(* message of its channel to both sockets.  solo[r] is run r on a channel  *)
(* from which the replies to the other run's requests are left out.        *)
(***************************************************************************)
\* ws.onopen of one run.
RunOpen(run) ==
    IF SendsOnOpen(run.codeBlocks)
    THEN LET message == createExecuteRequestMessage(
                            BlockAt(run.codeBlocks, run.currentBlockIndex).code,
                            run.msgCounter + 1)
         IN  [ run EXCEPT !.ws = "open",
                          !.msgCounter = @ + 1,
                          !.messageStatus = (message.header.msg_id :>
                                                [ done |-> FALSE, output |-> << >> ]) @@ @,
                          !.sent = Append(@, message) ]
    ELSE [ run EXCEPT !.ws = "open" ]

\* if (newOutput && onOutput) onOutput(codeBlocks[currentBlockIndex].id, newOutput)
RunCallback(run, newOutput) ==
    IF newOutput # << >> /\ run.onOutput
    THEN IF run.currentBlockIndex < Len(run.codeBlocks)
         THEN [ run EXCEPT !.outputCalls = CallOnOutput(@, run.codeBlocks,
                                                        run.currentBlockIndex, newOutput),
                           !.threw = FALSE ]
         ELSE [ run EXCEPT !.threw = TRUE ]
    ELSE [ run EXCEPT !.threw = FALSE ]

\* The idle branch of the status case, for a cell index in range.
RunAdvance(run, id) ==
    LET next   == run.currentBlockIndex + 1
        stored == [ run EXCEPT !.messageStatus[id].done = TRUE,
                               !.results = MapSet(@, BlockAt(run.codeBlocks,
                                                             run.currentBlockIndex).id,
                                                  run.messageStatus[id].output),
                               !.currentBlockIndex = next,
                               !.threw = FALSE ]
    IN  IF HasNextBlock(next, run.codeBlocks)
        THEN LET nextMessage == createExecuteRequestMessage(
                                    BlockAt(run.codeBlocks, next).code, run.msgCounter + 1)
             IN  [ stored EXCEPT !.msgCounter = @ + 1,
                                 !.messageStatus = (nextMessage.header.msg_id :>
                                                       [ done |-> FALSE, output |-> << >> ]) @@ @,
                                 !.sent = Append(@, nextMessage) ]
        ELSE [ stored EXCEPT !.ws = CloseSocket(@),
                             !.closeCalls = @ + 1,
                             !.promise = Resolve(@, ResolvedValue(run.codeBlocks,
                                                                  stored.results)) ]

\* ws.onmessage of one run, for the parsed message msg.
RunMessage(run, msg) ==
    LET id        == msg.parent
        type      == msg.msg_type
        newOutput == NewOutput(msg)
        inRange   == run.currentBlockIndex < Len(run.codeBlocks)
    IN
    IF run.ws \notin { "open", "closing" } THEN run
    ELSE IF ~Matched(msg, run.messageStatus) THEN [ run EXCEPT !.threw = FALSE ]
    ELSE IF id \notin DOMAIN run.messageStatus
    THEN [ run EXCEPT !.threw = (type \in OutputTypes \cup { "status" }) ]
    ELSE LET status   == run.messageStatus[id]
             appended == [ run EXCEPT !.messageStatus[id] = AppendOutput(status, newOutput) ]
         IN  CASE type \in { "stream", "execute_result", "display_data" } ->
                    RunCallback(appended, newOutput)
               [] type = "error" ->
                    IF inRange
                    THEN RunCallback([ appended EXCEPT
                                         !.codeBlocks[run.currentBlockIndex + 1].hasError = "true" ],
                                     newOutput)
                    ELSE [ appended EXCEPT !.threw = TRUE ]
               [] type = "status" /\ IdleCompletes(msg.content, status) ->
                    IF inRange THEN RunAdvance(run, id)
                    ELSE [ run EXCEPT !.messageStatus[id].done = TRUE, !.threw = TRUE ]
               [] OTHER -> [ run EXCEPT !.threw = FALSE ]

\* Mutant: the ids come from a counter that every call starts at zero.
FirstId_PerCallCounter(r) == 0

\* The ids run r can generate: the two runs draw from disjoint ranges.
FirstId(r) == (r - 1) * MaxCells

IdsOf(r) == { MsgId(FirstId(r) + k) : k \in 1..MaxCells }

\* The batch of run r: n cells with ids of its own.
RunBatch(r, n) ==
    [ k \in 1..n |-> [ id |-> FirstId(r) + k, code |-> << "code", FirstId(r) + k >>,
                       hasError |-> "undefined" ] ]

\* What the kernel may put on its channel: an answer to a request of either
\* run, or a message with no parent.
SharedBodies ==
    { b \in Bodies : \/ b.msg_type = "error"
                     \/ b.msg_type = "stream" /\ b.content.text # << >>
                     \/ b.msg_type = "status" /\ b.content.execution_state = "idle" }

SharedTraffic ==
    { WithParent(body, parent) :
        body \in SharedBodies, parent \in { NoParent } \cup IdsOf(1) \cup IdsOf(2) }

\* Both calls are made and both sockets open.
StartRuns ==
    /\ ~pair.started
    /\ \E sizes \in [ Runs -> 1..2 ] :
          LET opened == [ r \in Runs |->
                            RunOpen(NewRun(RunBatch(r, sizes[r]), TRUE, FirstId(r))) ]
          IN  pair' = [ started |-> TRUE, delivered |-> 0, run |-> opened, solo |-> opened ]

\* The kernel puts msg on the channel: both sockets deliver it.
Deliver(msg) ==
    /\ pair.started
    /\ pair.delivered < MaxShared
    /\ pair' = [ pair EXCEPT
                   !.delivered = @ + 1,
                   !.run  = [ r \in Runs |-> RunMessage(pair.run[r], msg) ],
                   !.solo = [ r \in Runs |->
                                IF msg.parent \in IdsOf(3 - r) THEN pair.solo[r]
                                ELSE RunMessage(pair.solo[r], msg) ] ]

SharedInit ==
    /\ Init
    /\ caller = [ entry |-> "executeNotebookBlocks", onOutput |-> FALSE ]
    /\ codeBlocks = << >>
    /\ onOutput = FALSE

SharedNext ==
    \/ StartRuns /\ UNCHANGED << batchVars, client, ai >>
    \/ \E msg \in SharedTraffic : Deliver(msg) /\ UNCHANGED << batchVars, client, ai >>

SpecShared == SharedInit /\ [][SharedNext]_vars

(***************************************************************************)
(* publishNotaUtilities: processNotaContent and processContentObject.      *)
(* A content tree is a JSON value; a string is a sequence of tokens, one   *)
(* of which may be a data URL.  uploadOk tells whether uploadImage          *)
(* succeeds.                                                               *)
(***************************************************************************)
DataUrl == "data:image/png;base64,AAAA"
HostedUrl == "https://cdn.example/image.png"

IsStr(j, chars) == j.t = "str" /\ j.v = chars

\* The value is truthy.
Truthy(j) ==
    CASE j.t \in { "undefined", "null" } -> FALSE
      [] j.t = "str"  -> j.v # << >>
      [] j.t = "bool" -> j.v
      [] OTHER -> TRUE

\* str.includes(token)
Includes(chars, token) == \E i \in 1..Len(chars) : chars[i] = token

\* { ...members, key: val }, and result[key] = val
SetMember(members, key, val) ==
    IF \E i \in 1..Len(members) : members[i].key = << key >>
    THEN [ i \in 1..Len(members) |->
             IF members[i].key = << key >> THEN [ key |-> << key >>, val |-> val ]
             ELSE members[i] ]
    ELSE Append(members, Member(key, val))

\* obj.attrs?.name
Attr(obj, name) ==
    LET attrs == GetMember(obj, "attrs")
    IN  IF attrs.t = "obj" THEN GetMember(attrs.v, name) ELSE Undefined

\* { ...obj.attrs, name: val }
AttrsWith(obj, name, val) == JObj(SetMember(GetMember(obj, "attrs").v, name, val))

\* processContent: every data URL is replaced by the hosted URL of its
\* upload, or kept when the upload fails.
processContent(chars, uploadOk) ==
    [ i \in 1..Len(chars) |-> IF chars[i] = DataUrl /\ uploadOk THEN HostedUrl ELSE chars[i] ]

\* No options, or options with the ids of the published sub pages.
IsPublished(options, notaId) == options.given /\ notaId \in options.publishedSubPages

\* Handle page links (lines 117-136).
PageLinkStep(obj, result, options) ==
    LET href == Attr(obj, "href") IN
    IF /\ IsStr(GetMember(obj, "type"), << "pageLink" >>)
       /\ href.t = "str" /\ href.v # << >>
       /\ Head(href.v) = "/nota/"
       /\ IsPublished(options, Tail(href.v))
    THEN SetMember(result, "attrs",
                   AttrsWith(obj, "href", JStr(<< "/p/" >> \o Tail(href.v))))
    ELSE result

\* Process inline code block outputs (lines 139-152).
CodeBlockStep(obj, result, uploadOk) ==
    LET output == Attr(obj, "output") IN
    IF /\ IsStr(GetMember(obj, "type"), << "executableCodeBlock" >>)
       /\ output.t = "str" /\ Includes(output.v, "<img")
    THEN SetMember(result, "attrs",
                   AttrsWith(obj, "output", JStr(processContent(output.v, uploadOk))))
    ELSE result

\* Handle image blocks and drawIo blocks (lines 155-171).
ImageStep(obj, result, uploadOk) ==
    LET src == Attr(obj, "src")
        type == GetMember(obj, "type")
    IN
    IF /\ IsStr(type, << "imageBlock" >>) \/ IsStr(type, << "drawIoExtension" >>)
       /\ src.t = "str" /\ src.v # << >> /\ Head(src.v) = DataUrl
       /\ uploadOk
    THEN SetMember(result, "attrs", AttrsWith(obj, "src", JStr(<< HostedUrl >>)))
    ELSE result

\* One subfigure of a subfigure block (lines 176-199).
ProcessSubfigure(subfigure, uploadOk) ==
    IF subfigure.t # "obj" THEN subfigure
    ELSE LET src == GetMember(subfigure.v, "src") IN
         IF src.t = "str" /\ src.v # << >> /\ Head(src.v) = DataUrl /\ uploadOk
         THEN JObj(SetMember(subfigure.v, "src", JStr(<< HostedUrl >>)))
         ELSE subfigure

\* Handle subfigures (lines 174-207).
SubfigureStep(obj, result, uploadOk) ==
    LET subfigures == Attr(obj, "subfigures") IN
    IF IsStr(GetMember(obj, "type"), << "subfigure" >>) /\ subfigures.t = "arr"
    THEN SetMember(result, "attrs",
                   AttrsWith(obj, "subfigures",
                             JArr([ i \in 1..Len(subfigures.v) |->
                                      ProcessSubfigure(subfigures.v[i], uploadOk) ])))
    ELSE result

RECURSIVE processContentObject(_, _, _), ProcessItems(_, _, _), PropertyLoop(_, _, _, _, _)
processContentObject(obj, options, uploadOk) ==
    IF ~Truthy(obj) THEN obj
    ELSE IF obj.t = "arr" THEN JArr(ProcessItems(obj.v, options, uploadOk))
    ELSE IF obj.t = "obj"
    THEN LET spread  == obj.v
             linked  == PageLinkStep(obj.v, spread, options)
             code    == CodeBlockStep(obj.v, linked, uploadOk)
             image   == ImageStep(obj.v, code, uploadOk)
             figures == SubfigureStep(obj.v, image, uploadOk)
             content == GetMember(obj.v, "content")
             withContent ==
                 IF content.t = "arr"
                 THEN SetMember(figures, "content",
                                processContentObject(content, options, uploadOk))
                 ELSE figures
         IN  JObj(PropertyLoop(obj.v, withContent, 1, options, uploadOk))
    ELSE IF obj.t = "str" THEN JStr(processContent(obj.v, uploadOk))
    ELSE obj

\* obj.map(item => processContentObject(item)).filter(item => item !== null)
ProcessItems(items, options, uploadOk) ==
    IF items = << >> THEN << >>
    ELSE LET first == processContentObject(Head(items), options, uploadOk)
             rest  == ProcessItems(Tail(items), options, uploadOk)
         IN  IF first.t = "null" THEN rest ELSE << first >> \o rest

\* for (const key in obj), from the k-th property on (lines 214-228).
PropertyLoop(obj, result, k, options, uploadOk) ==
    IF k > Len(obj) THEN result
    ELSE LET key == obj[k].key[1]
             val == obj[k].val
             next ==
                 IF key # "content" /\ val.t \in { "obj", "arr" }
                 THEN SetMember(result, key, processContentObject(val, options, uploadOk))
                 ELSE IF key # "content" /\ val.t = "str" /\ Includes(val.v, DataUrl)
                 THEN SetMember(result, key, JStr(processContent(val.v, uploadOk)))
                 ELSE result
         IN  PropertyLoop(obj, next, k + 1, options, uploadOk)

\* processNotaContent(content, options): content is an object or its text.
processNotaContent(content, options, uploadOk) ==
    IF ~Truthy(content) THEN Return(JNull)
    ELSE IF content.t = "str"
    THEN LET parsed == JsonParse(content.v) IN
         IF ~parsed.ok THEN Throw("SyntaxError", << "Unexpected token" >>)
         ELSE Return(processContentObject(parsed.val, options, uploadOk))
    ELSE Return(processContentObject(content, options, uploadOk))

Node(type, members) == JObj(<< Member("type", JStr(<< type >>)) >> \o members)

PageLink(href) ==
    Node("pageLink", << Member("attrs", JObj(<< Member("href", JStr(href)),
                                                Member("title", JStr(<< "Sub page" >>)) >>)) >>)

TextNode == Node("text", << Member("text", JStr(<< "see" >>)) >>)

ImageBlock == Node("imageBlock", << Member("attrs", JObj(<< Member("src", JStr(<< DataUrl >>)) >>)) >>)

CodeBlock ==
    Node("executableCodeBlock",
         << Member("attrs", JObj(<< Member("output", JStr(<< "<img", DataUrl, ">" >>)) >>)) >>)

Subfigure ==
    Node("subfigure",
         << Member("attrs", JObj(<< Member("subfigures",
                JArr(<< JObj(<< Member("src", JStr(<< DataUrl >>)),
                                Member("caption", JStr(<< "a" >>)) >>) >>)) >>)) >>)

Paragraph(children) == Node("paragraph", << Member("content", JArr(children)) >>)

Doc(children) == Node("doc", << Member("content", JArr(children)) >>)

\* The ids of the sub pages a link may name.
NotaIds == { << "a" >>, << "b" >> }

LinkHrefs ==
    { << "/nota/" >> \o id : id \in NotaIds }
    \cup { << "/p/", "a" >>, << "https://example.org" >>, << "/x", "/nota/", "a" >> }

Documents ==
    { PageLink(h) : h \in LinkHrefs }
    \cup { Doc(<< Paragraph(<< TextNode, PageLink(h) >>), ImageBlock >>) : h \in LinkHrefs }
    \cup { Doc(<< PageLink(h), block, JNull, PageLink(<< "/nota/", "b" >>) >>) :
             h \in LinkHrefs, block \in { CodeBlock, Subfigure } }

Contents ==
    Documents \cup { JStr(JsonStringify(d)) : d \in Documents }
    \cup { JStr(<< >>), JStr(<< "{", "type" >>) }

NoOptions == [ given |-> FALSE, publishedSubPages |-> { } ]

PublishOptions ==
    { NoOptions } \cup { [ given |-> TRUE, publishedSubPages |-> ids ] : ids \in SUBSET NotaIds }

ProcessNotaContent ==
    \E content \in Contents, options \in PublishOptions, uploadOk \in BOOLEAN :
        client' = [ op |-> "processNotaContent",
                    input |-> [ content |-> content, options |-> options,
                                uploadOk |-> uploadOk ],
                    outcome |-> processNotaContent(content, options, uploadOk) ]

(***************************************************************************)
(* URL derivation: getBaseUrl, getUrlWithToken, getWebSocketUrl.  A string *)
(* is a sequence of tokens cut so that "http", "s", "ws" and "://" are     *)
(* tokens of their own: "https://h" is << "http", "s", "://", "h" >> and   *)
(* "httpbin.local" is << "http", "bin.local" >>.                           *)
(***************************************************************************)
StartsWith(str, prefix) ==
    Len(str) >= Len(prefix) /\ SubSeq(str, 1, Len(prefix)) = prefix

\* str.replace(pattern, replacement): the first occurrence only.
ReplaceFirst(str, pattern, replacement) ==
    IF ~Contains(str, pattern) THEN str
    ELSE LET i == CHOOSE i \in 0..(Len(str) - Len(pattern)) :
                     /\ SubSeq(str, i + 1, i + Len(pattern)) = pattern
                     /\ \A j \in 0..(i - 1) : SubSeq(str, j + 1, j + Len(pattern)) # pattern
         IN  SubSeq(str, 1, i) \o replacement \o SubSeq(str, i + Len(pattern) + 1, Len(str))

getBaseUrl(server) ==
    (IF StartsWith(server.ip, << "http" >>) THEN << >> ELSE << "http", "://" >>)
    \o server.ip \o << ":", server.port >>

getUrlWithToken(serverConfig, endpoint) ==
    LET url == getBaseUrl(serverConfig) \o endpoint
    IN  IF serverConfig.token # "" THEN url \o << "?token=", serverConfig.token >> ELSE url

getWebSocketUrl(serverConfig, kernelId) ==
    LET baseUrl == ReplaceFirst(ReplaceFirst(getBaseUrl(serverConfig),
                                             << "http", "://" >>, << "ws", "://" >>),
                                << "http", "s", "://" >>, << "ws", "s", "://" >>)
        url == baseUrl \o << "/api/kernels/", kernelId, "/channels" >>
    IN  IF serverConfig.token # "" THEN url \o << "?token=", serverConfig.token >> ELSE url

\* The hosts a server is configured with.
Hosts ==
    { << "localhost" >>, << "10.0.0.1" >>, << "jupyter.example" >>,
      << "http", "://", "localhost" >>, << "http", "s", "://", "jupyter.example" >>,
      << "http", "bin.local" >>, << "http", "s", ".internal" >> }

Servers ==
    { [ ip |-> ip, port |-> port, token |-> token ] :
        ip \in Hosts, port \in { "8888", "443" }, token \in { "", "secret" } }

DeriveUrls ==
    \E server \in Servers :
        client' = [ op |-> "deriveUrls", input |-> server,
                    outcome |-> [ base |-> getBaseUrl(server),
                                  http |-> getUrlWithToken(server, << "/api/kernels" >>),
                                  ws   |-> getWebSocketUrl(server, "k1") ] ]

(***************************************************************************)
(* useAIProviders: loadWebLLMModel and ensureWebLLMModelLoaded.  The state *)
(* of the WebLLM service is [currentModel, error], "" standing for null;   *)
(* loading is what aiService.initializeWebLLMModel does when called.       *)
(***************************************************************************)
\* initializeWebLLMModel resolves with the model loaded, rejects, or
\* resolves with the service holding another model.
LoadResults == { "loaded", "rejects", "otherModel" }

\* loadWebLLMModel(modelName): what it returns and the service state after.
loadWebLLMModel(modelName, loading, service) ==
    CASE loading = "loaded" ->
            [ returned |-> TRUE, preferred |-> "webllm",
              service |-> [ currentModel |-> modelName, error |-> "" ] ]
      [] loading = "rejects" ->
            [ returned |-> FALSE, preferred |-> "",
              service |-> [ currentModel |-> "", error |-> "Failed to initialize" ] ]
      [] OTHER ->
            [ returned |-> FALSE, preferred |-> "",
              service |-> [ currentModel |-> "another", error |-> "" ] ]

\* The model the auto-load strategy picks (lines 561-576).
ModelForStrategy(strategy, recommendations) ==
    CASE strategy = "fastest"  -> recommendations.fastest
      [] strategy = "balanced" -> recommendations.balanced
      [] OTHER                 -> recommendations.smallest

ensureWebLLMModelLoaded(service, settings, recommendations, loading) ==
    LET alreadyLoaded == service.currentModel # "" /\ service.error = ""
        modelToLoad ==
            IF settings.defaultModel = "" /\ settings.autoLoadStrategy # ""
            THEN ModelForStrategy(settings.autoLoadStrategy, recommendations)
            ELSE settings.defaultModel
        calls == ~alreadyLoaded /\ settings.autoLoad /\ modelToLoad # ""
        load  == loadWebLLMModel(modelToLoad, loading, service)
    IN  [ returned    |-> IF alreadyLoaded THEN TRUE
                          ELSE IF ~settings.autoLoad THEN FALSE
                          ELSE modelToLoad # "",
          loadCalled  |-> calls,
          modelToLoad |-> modelToLoad,
          loadReturned |-> calls /\ load.returned,
          service     |-> IF calls THEN load.service ELSE service ]

ServiceStates ==
    { [ currentModel |-> m, error |-> e ] : m \in { "", "loaded-before" }, e \in { "", "failed" } }

WebLLMSettings ==
    { [ autoLoad |-> a, defaultModel |-> d, autoLoadStrategy |-> st ] :
        a \in BOOLEAN, d \in { "", "default-model" },
        st \in { "", "smallest", "fastest", "balanced", "unknown" } }

Recommendations ==
    { [ smallest |-> "small", fastest |-> "fast", balanced |-> "mid" ],
      [ smallest |-> "", fastest |-> "", balanced |-> "" ] }

EnsureWebLLMModelLoaded ==
    \E service \in ServiceStates, settings \in WebLLMSettings,
       recommendations \in Recommendations, loading \in LoadResults :
        client' = [ op |-> "ensureWebLLMModelLoaded",
                    input |-> [ service |-> service, settings |-> settings,
                                recommendations |-> recommendations, loading |-> loading ],
                    outcome |-> ensureWebLLMModelLoaded(service, settings,
                                                        recommendations, loading) ]

\* The service keeps no state between these calls: no batch is running.
ClientInit ==
    /\ Init
    /\ caller = [ entry |-> "executeNotebookBlocks", onOutput |-> FALSE ]
    /\ codeBlocks = << >>
    /\ onOutput = FALSE

\* The operations are stateless, so a behaviour makes one call of one of them.
ClientNext ==
    \/ client = NoCall /\ CreateKernel /\ UNCHANGED << batchVars, pair, ai >>
    \/ client = NoCall /\ DeleteKernel /\ UNCHANGED << batchVars, pair, ai >>
    \/ client = NoCall /\ ListKernels /\ UNCHANGED << batchVars, pair, ai >>
    \/ client = NoCall /\ SendAndParse /\ UNCHANGED << batchVars, pair, ai >>
    \/ client = NoCall /\ ProcessNotaContent /\ UNCHANGED << batchVars, pair, ai >>
    \/ client = NoCall /\ DeriveUrls /\ UNCHANGED << batchVars, pair, ai >>
    \/ client = NoCall /\ EnsureWebLLMModelLoaded /\ UNCHANGED << batchVars, pair, ai >>

SpecClient == ClientInit /\ [][ClientNext]_vars

(***************************************************************************)
(* useAIProviders: checkAllProviders and selectBestAvailableProvider.      *)
(* Both are async functions on one thread: a call runs until its first     *)
(* await, and each later step runs from one await to the next.  The order  *)
(* of aiService.getProviderConfigs() and the answers of the availability   *)
(* checks belong to the environment.  null is the empty string.            *)
(***************************************************************************)
MaxCalls == 3

ProviderIds == { "webllm", "ollama", "gemini" }

\* The orders getProviderConfigs may list the providers in.
ProviderOrders ==
    { order \in [ 1..3 -> ProviderIds ] : \A i, j \in 1..3 : order[i] = order[j] => i = j }

\* The name of the model the WebLLM service holds, if any.
ServiceModels == { "", "default-model" }

\* providers.value.filter(p => p.id === preferredProviderId)
RECURSIVE FilterById(_, _)
FilterById(list, id) ==
    IF list = << >> THEN << >>
    ELSE IF Head(list) = id THEN << Head(list) >> \o FilterById(Tail(list), id)
    ELSE FilterById(Tail(list), id)

updateWebLLMState(st) == [ st EXCEPT !.currentWebLLMModel = st.serviceModel ]

\* The loop of checkAllProviders from provider number i up to its next await,
\* or through updateWebLLMState and the finally block when no provider is left.
RECURSIVE RunLoop(_, _)
RunLoop(st, i) ==
    IF i > Len(st.pass.list)
    THEN [ updateWebLLMState(st) EXCEPT !.isCheckingProviders = FALSE, !.pass = NoPass ]
    ELSE IF st.pass.list[i] = "ollama" /\ st.preferredProviderId # "ollama"
    THEN RunLoop(st, i + 1)
    ELSE [ st EXCEPT !.pass.next = i ]

\* checkAllProviders up to its first await.
checkAllProviders(st, checkOnlyCurrentProvider, forSelect) ==
    IF st.isCheckingProviders THEN st
    ELSE LET providersToCheck ==
                 IF checkOnlyCurrentProvider
                 THEN FilterById(st.providers, st.preferredProviderId)
                 ELSE st.providers
         IN  RunLoop([ st EXCEPT !.isCheckingProviders = TRUE,
                                 !.availableProviders = << >>,
                                 !.pass = [ list |-> providersToCheck, next |-> 0,
                                            forSelect |-> forSelect ] ], 1)

\* selectBestAvailableProvider after its await: the provider it returns.
BestProvider(st) ==
    LET currentProvider == st.preferredProviderId
    IN  IF Includes(st.availableProviders, currentProvider) THEN currentProvider
        ELSE IF Includes(st.availableProviders, "webllm") /\ st.currentWebLLMModel # ""
        THEN "webllm"
        ELSE IF Includes(st.availableProviders, "ollama") THEN "ollama"
        ELSE IF Includes(st.availableProviders, "gemini") THEN "gemini"
        ELSE currentProvider

\* selectBestAvailableProvider after its await; duringPass tells whether a
\* pass of another caller is still running.
Decide(st) ==
    [ st EXCEPT !.preferredProviderId = BestProvider(st),
                !.selected = [ decided |-> TRUE, duringPass |-> st.isCheckingProviders,
                               returned |-> BestProvider(st) ] ]

\* useAIProviders(): the refs start empty, and the creation-time
\* updateWebLLMState reads the service's model.
UseAIProviders ==
    /\ ~ai.built
    /\ \E order \in ProviderOrders, answers \in [ ProviderIds -> BOOLEAN ],
          model \in ServiceModels, preferred \in ProviderIds :
           ai' = updateWebLLMState([ NoProviders EXCEPT
                                       !.built = TRUE, !.providers = order,
                                       !.isAvailable = answers,
                                       !.serviceModel = model,
                                       !.preferredProviderId = preferred ])

\* A caller other than selectBestAvailableProvider calls checkAllProviders.
CheckAllProviders ==
    /\ ai.built
    /\ ai.calls < MaxCalls
    /\ \E checkOnlyCurrentProvider \in BOOLEAN :
           ai' = [ checkAllProviders(ai, checkOnlyCurrentProvider, FALSE)
                     EXCEPT !.calls = ai.calls + 1 ]

\* selectBestAvailableProvider is called.  When a pass is running, its
\* checkAllProviders returns at once and the function goes on in the next
\* microtask; otherwise it goes on when its own pass ends.
SelectBestAvailableProvider ==
    /\ ai.built
    /\ ai.calls < MaxCalls
    /\ LET checked == [ checkAllProviders(ai, FALSE, TRUE) EXCEPT !.calls = ai.calls + 1 ]
       IN  ai' = IF ai.isCheckingProviders \/ ~checked.isCheckingProviders
                 THEN Decide(checked)
                 ELSE checked

\* The awaited checkProviderAvailability of the running pass answers; the
\* pass goes on to its next await or to its end, where the
\* selectBestAvailableProvider call that started it goes on.
CheckAnswered ==
    /\ ai.built
    /\ ai.pass.next > 0
    /\ LET providerId == ai.pass.list[ai.pass.next]
           pushed == IF ai.isAvailable[providerId]
                     THEN [ ai EXCEPT !.availableProviders = Append(@, providerId) ]
                     ELSE ai
           after == RunLoop(pushed, ai.pass.next + 1)
       IN  ai' = IF ~after.isCheckingProviders /\ ai.pass.forSelect
                 THEN Decide(after)
                 ELSE after

ProvidersInit ==
    /\ Init
    /\ caller = [ entry |-> "executeNotebookBlocks", onOutput |-> FALSE ]
    /\ codeBlocks = << >>
    /\ onOutput = FALSE

ProvidersNext ==
    \/ UseAIProviders /\ UNCHANGED << batchVars, client, pair >>
    \/ CheckAllProviders /\ UNCHANGED << batchVars, client, pair >>
    \/ SelectBestAvailableProvider /\ UNCHANGED << batchVars, client, pair >>
    \/ CheckAnswered /\ UNCHANGED << batchVars, client, pair >>

SpecProviders == ProvidersInit /\ [][ProvidersNext]_vars

(***************************************************************************)
(* Properties.                                                             *)
(***************************************************************************)
NumBlocks == Len(codeBlocks)

\* The id of the execute request sent for the cell with 0-based index i.
RequestIdOf(i) == sent[i + 1].header.msg_id

NotDone == { id \in DOMAIN messageStatus : ~messageStatus[id].done }

\* C1: the requests sent so far are execute requests for the cells
\* 0, 1, 2, ... in that order, never more than the batch has cells; each
\* request but the first was sent only once an idle status whose parent id
\* is the previous request's id had been processed; and a batch that has
\* resolved has sent exactly one request per cell.
C1_SequentialRequests ==
    /\ Len(sent) <= NumBlocks
    /\ \A k \in 1..Len(sent) :
          /\ sent[k].header.msg_type = "execute_request"
          /\ sent[k].content.code = codeBlocks[k].code
          /\ \A j \in 1..Len(sent) : sent[j].header.msg_id = sent[k].header.msg_id => j = k
    /\ \A k \in 2..Len(sent) : sent[k - 1].header.msg_id \in idleProcessed
    /\ promise.state = "resolved" => Len(sent) = NumBlocks

\* A batch of MaxCells cells has run to completion.
C1_Witness ==
    /\ promise.state = "resolved"
    /\ NumBlocks = MaxCells
    /\ Len(sent) = MaxCells

\* C2: at most one recorded pending request is not done; while the batch
\* is running (socket open, current index below the batch length) exactly
\* one is, and it is the request sent for the cell at the current index.
C2_SingleInFlight ==
    /\ Cardinality(NotDone) <= 1
    /\ (ws = "open" /\ currentBlockIndex < NumBlocks) =>
          /\ Len(sent) = currentBlockIndex + 1
          /\ NotDone = { RequestIdOf(currentBlockIndex) }
          /\ sent[currentBlockIndex + 1].content.code
                 = BlockAt(codeBlocks, currentBlockIndex).code

\* The second cell's request is in flight and the first one's is done.
C2_Witness ==
    /\ ws = "open"
    /\ currentBlockIndex = 1
    /\ NumBlocks >= 2
    /\ Cardinality(DOMAIN messageStatus) = 2
    /\ Cardinality(NotDone) = 1

\* The observable state of a batch: everything but the model's counters of
\* delivered messages and its logs of what was delivered.
Observable ==
    << codeBlocks, ws, currentBlockIndex, messageStatus, results, promise, sent,
       msgCounter, outputCalls, closeCalls >>

\* The inbound messages that carry no parent id or a foreign one.
ForeignTraffic == { WithParent(body, parent) : body \in Bodies, parent \in { NoParent, ForeignId } }

\* parent_header.msg_id is absent or is no key of messageStatus.
Unmatched(msg) == msg.parent = NoParent \/ msg.parent \notin DOMAIN messageStatus

\* C3: handling an inbound message whose parent id is absent or matches no
\* recorded pending request changes no cell, no pending request, no result
\* and not the cell index, sends nothing, does not call onOutput, does not
\* settle the promise, and returns without raising.
C3_UnmatchedIgnored ==
    [][ \A msg \in ForeignTraffic :
            (Unmatched(msg) /\ OnMessage(msg)) =>
                (UNCHANGED Observable /\ threw' = FALSE) ]_vars

\* An unmatched message was dropped while a request was in flight.
C3_Witness ==
    /\ nIgnored > 0
    /\ ws = "open"
    /\ NotDone # { }
    /\ nMatched > 0

\* The fragment the specification assigns to an output message.
ExpectedFragment(msg) ==
    LET c == msg.content IN
    CASE msg.msg_type = "stream" -> c.text
      [] msg.msg_type \in { "execute_result", "display_data" } ->
            (IF c.plain = << >> THEN << >> ELSE c.plain \o << "\n" >>)
            \o (IF c.html = << >> THEN << >> ELSE c.html \o << "\n" >>)
            \o (IF c.png = << >> THEN << >>
                ELSE << "<img src=\"data:image/png;base64," >> \o c.png
                     \o << "\" />" >> \o << "\n" >>)
      [] msg.msg_type = "error" ->
            << "Error: " >> \o c.ename \o << "\n" >> \o c.evalue \o << "\n" >>
            \o Join(c.traceback, << "\n" >>)

RECURSIVE ConcatFragments(_)
ConcatFragments(msgs) ==
    IF msgs = << >> THEN << >>
    ELSE ExpectedFragment(Head(msgs)) \o ConcatFragments(Tail(msgs))

\* The output messages processed for the request of cell k (1-based)
\* before that request's idle status.
ReceivedBeforeIdle(k) == ReceivedFor(received, sent[k].header.msg_id)

\* C4: when a batch with unique cell ids has resolved, the output of each
\* cell's result is the concatenation, in arrival order, of the fragments
\* of the stream, execute_result, display_data and error messages matched
\* to that cell's request id and processed before that request's idle
\* status.
C4_OutputAccumulation ==
    (promise.state = "resolved" /\ UniqueIds(codeBlocks)) =>
        \A k \in 1..NumBlocks :
            promise.value[k].output = ConcatFragments(ReceivedBeforeIdle(k))

\* stream "a", then execute_result text/plain "b", then idle: "a" + "b\n".
C4_Witness ==
    /\ promise.state = "resolved"
    /\ NumBlocks = 1
    /\ Len(ReceivedBeforeIdle(1)) = 2
    /\ ReceivedBeforeIdle(1)[1].msg_type = "stream"
    /\ ReceivedBeforeIdle(1)[1].content.text = << "a" >>
    /\ ReceivedBeforeIdle(1)[2].msg_type = "execute_result"
    /\ ReceivedBeforeIdle(1)[2].content.plain = << "b" >>
    /\ ReceivedBeforeIdle(1)[2].content.html = << >>
    /\ promise.value[1].output = << "a", "b", "\n" >>

\* Cell k (1-based) got an error message for its request before its idle.
ErrorsOf(k) ==
    { i \in 1..Len(ReceivedBeforeIdle(k)) : ReceivedBeforeIdle(k)[i].msg_type = "error" }

ErrorText(c) ==
    << "Error: " >> \o c.ename \o << "\n" >> \o c.evalue \o << "\n" >>
    \o Join(c.traceback, << "\n" >>)

\* C5 as stated: an error message matched to the current cell's request,
\* followed by that request's idle status, yields a result for that cell
\* with hasError true and an output containing the error text.
C5_ErrorAttributionAnyIds ==
    promise.state = "resolved" =>
        \A k \in 1..NumBlocks : \A i \in ErrorsOf(k) :
            /\ promise.value[k].hasError = "true"
            /\ Contains(promise.value[k].output,
                        ErrorText(ReceivedBeforeIdle(k)[i].content))

\* C5, amended: the result of such a cell has hasError true, and, when the
\* cell ids of the batch are unique, an output containing the error text.
C5_ErrorAttribution ==
    promise.state = "resolved" =>
        \A k \in 1..NumBlocks : \A i \in ErrorsOf(k) :
            /\ promise.value[k].hasError = "true"
            /\ UniqueIds(codeBlocks) =>
                   Contains(promise.value[k].output,
                            ErrorText(ReceivedBeforeIdle(k)[i].content))

\* ValueError / bad / line1, line2, then idle.
C5_Witness ==
    /\ promise.state = "resolved"
    /\ NumBlocks = 1
    /\ ErrorsOf(1) # { }
    /\ promise.value[1].hasError = "true"
    /\ Contains(promise.value[1].output,
                << "Error: ", "ValueError", "\n", "bad", "\n", "line1", "\n", "line2" >>)

\* A step in which the transport's close signal fires.
CloseSignal == ws # "closed" /\ ws' = "closed"

RejectedWith(p, reason) == p.state = "rejected" /\ p.reason = reason

\* C6 as stated: the close signal leaves the batch rejected with the
\* closed-before-completion error exactly if cells remain unprocessed when
\* it fires, and a close after the last cell's idle leaves it resolved.
C6_CloseRejectsIffCellsRemain ==
    [][ CloseSignal =>
          /\ currentBlockIndex < NumBlocks <=> RejectedWith(promise', ClosedBeforeCompleted)
          /\ (NumBlocks > 0 /\ currentBlockIndex = NumBlocks) => promise'.state = "resolved"
      ]_vars

\* C6, amended: if no transport error has rejected the promise before, the
\* close signal rejects it with the closed-before-completion error exactly
\* if cells remain unprocessed, and a close after the last cell's idle
\* leaves it resolved; a promise already rejected by a transport error
\* keeps that error.
C6_CloseRejectsPending ==
    [][ CloseSignal =>
          /\ promise.state = "pending" =>
                /\ currentBlockIndex < NumBlocks <=>
                       RejectedWith(promise', ClosedBeforeCompleted)
                /\ currentBlockIndex >= NumBlocks => promise' = promise
          /\ promise.state # "pending" => promise' = promise
          /\ (NumBlocks > 0 /\ currentBlockIndex = NumBlocks /\ ~errorFired) =>
                promise'.state = "resolved"
      ]_vars

\* The close signal fired after 2 of 3 cells had completed.
C6_Witness ==
    /\ ws = "closed"
    /\ NumBlocks = 3
    /\ currentBlockIndex = 2
    /\ Cardinality(idleProcessed) = 2
    /\ RejectedWith(promise, ClosedBeforeCompleted)

\* C7: once the last cell's idle status has been processed the coordinator
\* has called close on the socket, which is closing or closed from then on,
\* and no step sends anything any more.
C7_CompletionCloses ==
    [][ /\ (NumBlocks > 0 /\ currentBlockIndex' = NumBlocks) =>
              (closeCalls' >= 1 /\ ws' \in { "closing", "closed" })
        /\ (NumBlocks > 0 /\ currentBlockIndex = NumBlocks) => sent' = sent
      ]_vars

\* Messages kept arriving after the batch had completed.
C7_Witness ==
    /\ NumBlocks > 0
    /\ currentBlockIndex = NumBlocks
    /\ nMatched > NumBlocks
    /\ closeCalls = 1
    /\ ws = "closing"

\* C8: a call with an empty cell list resolves to an empty array, opens no
\* socket and sends nothing.
C8_EmptyBatchResolves ==
    [][ (NumBlocks = 0 /\ ws = "none") =>
            /\ ws' = "none"
            /\ promise'.state = "resolved"
            /\ promise'.value = << >>
            /\ sent' = << >>
      ]_vars

\* C9: a resolved batch carries one result per cell, in cell order, the
\* k-th with the id of the k-th cell; the results map is written exactly
\* in the steps that process the idle status of the current cell's
\* request, once per cell, with that request's output.
C9_OneResultPerCell ==
    [][ /\ promise'.state = "resolved" =>
              /\ Len(promise'.value) = NumBlocks
              /\ \A k \in 1..NumBlocks : promise'.value[k].id = codeBlocks[k].id
              /\ currentBlockIndex' = NumBlocks
        /\ currentBlockIndex' # currentBlockIndex =>
              /\ currentBlockIndex' = currentBlockIndex + 1
              /\ RequestIdOf(currentBlockIndex) \in idleProcessed' \ idleProcessed
              /\ results' = MapSet(results, BlockAt(codeBlocks, currentBlockIndex).id,
                                   messageStatus[RequestIdOf(currentBlockIndex)].output)
        /\ currentBlockIndex' = currentBlockIndex => results' = results
        /\ promise.state = "resolved" => promise' = promise
      ]_vars

\* A batch of MaxCells cells with distinct ids has resolved.
C9_Witness ==
    /\ promise.state = "resolved"
    /\ NumBlocks = MaxCells
    /\ UniqueIds(codeBlocks)
    /\ Len(promise.value) = MaxCells

\* A step in which the transport's error signal fires.
ErrorSignal == ~errorFired /\ errorFired'

\* C10: an error signal that fires while the batch is opening or running
\* leaves the promise rejected with the transport error, and a rejected
\* promise stays rejected with the same error.
C10_ErrorRejects ==
    [][ /\ (ErrorSignal /\ ws \in { "connecting", "open" }) =>
              RejectedWith(promise', WebSocketError)
        /\ promise.state = "rejected" => promise' = promise
      ]_vars

\* The error signal fired while the second cell was running.
C10_Witness ==
    /\ errorFired
    /\ currentBlockIndex = 1
    /\ NumBlocks >= 2
    /\ RejectedWith(promise, WebSocketError)

\* The ids the requests of one batch can carry.
RequestIds == { MsgId(k) : k \in 1..(MaxCells + 1) }

\* The error messages that may answer a request of the batch.
ErrorTraffic ==
    { WithParent(body, id) : body \in { b \in Bodies : b.msg_type = "error" },
                             id \in RequestIds }

\* C11: processing a kernel error message neither settles the promise nor
\* moves the cell index, closes the socket or sends anything; once the
\* idle status of a request that got an error message has been processed,
\* the cell is flagged, the index is past it and the next cell's request
\* has been sent; and when the last idle status has been processed without
\* a transport error the promise is resolved, the error showing only in
\* the hasError of that cell's result.
C11_KernelErrorNotFatal ==
    [][ /\ \A msg \in ErrorTraffic :
              OnMessage(msg) =>
                  /\ promise' = promise
                  /\ currentBlockIndex' = currentBlockIndex
                  /\ ws' = ws
                  /\ sent' = sent
        /\ \A k \in 1..Len(sent') :
              (ErrorsOf(k)' # { } /\ sent'[k].header.msg_id \in idleProcessed') =>
                  /\ codeBlocks'[k].hasError = "true"
                  /\ currentBlockIndex' >= k
                  /\ k < NumBlocks =>
                        /\ Len(sent') >= k + 1
                        /\ sent'[k + 1].content.code = codeBlocks[k + 1].code
        /\ (NumBlocks > 0 /\ currentBlockIndex' = NumBlocks /\ ~errorFired') =>
              /\ promise'.state = "resolved"
              /\ \A k \in 1..NumBlocks :
                    ErrorsOf(k)' # { } => promise'.value[k].hasError = "true"
      ]_vars

\* The first of several cells got an error message and the batch resolved,
\* with hasError true for that cell only.
C11_Witness ==
    /\ promise.state = "resolved"
    /\ NumBlocks >= 2
    /\ ErrorsOf(1) # { }
    /\ promise.value[1].hasError = "true"
    /\ promise.value[2].hasError # "true"

\* The step processes the idle status of the current cell's request.
CurrentIdleStep ==
    /\ currentBlockIndex < NumBlocks
    /\ Len(sent) = currentBlockIndex + 1
    /\ RequestIdOf(currentBlockIndex) \in idleProcessed' \ idleProcessed

\* C12: a payload that does not parse changes no cell, no pending request,
\* no result and not the cell index, sends nothing and does not settle the
\* promise; and after such a payload the idle status of the current
\* request still advances the batch by one cell.
C12_MalformedNotFatal ==
    [][ /\ tally'.malformed # tally.malformed => UNCHANGED Observable
        /\ (tally.malformed > 0 /\ CurrentIdleStep) =>
              /\ currentBlockIndex' = currentBlockIndex + 1
              /\ currentBlockIndex' < NumBlocks => Len(sent') = Len(sent) + 1
              /\ (currentBlockIndex' = NumBlocks /\ ~errorFired) =>
                    promise'.state = "resolved"
      ]_vars

\* A batch of several cells resolved although a malformed payload arrived.
C12_Witness ==
    /\ tally.malformed > 0
    /\ NumBlocks >= 2
    /\ promise.state = "resolved"

\* C13: in the results of a batch during which no error message was
\* processed, every cell has hasError false.
C13_NoErrorMeansFalse ==
    (promise.state = "resolved" /\ tally.errors = 0) =>
        \A k \in 1..NumBlocks : promise.value[k].hasError = "false"

\* The non-empty fragments of the messages msgs, in order.
RECURSIVE NonEmptyFragments(_)
NonEmptyFragments(msgs) ==
    IF msgs = << >> THEN << >>
    ELSE (IF ExpectedFragment(Head(msgs)) = << >> THEN << >>
          ELSE << ExpectedFragment(Head(msgs)) >>)
         \o NonEmptyFragments(Tail(msgs))

\* C14: a call through executeCode sends one execute request, carrying the
\* given code, once the socket is open and never another; its promise is
\* pending, resolved or rejected as the one-cell batch is, rejected with
\* the batch's error and resolved with the result of the cell 'single',
\* whose output is what the request received before its idle status; and
\* the caller's onOutput, when given, is called with each non-empty
\* fragment, without the cell id.
C14_ExecuteCodeIsSingleCellBatch ==
    caller.entry = "executeCode" =>
        LET outcome == ExecuteCodeOutcome(promise) IN
        /\ NumBlocks = 1
        /\ Len(sent) <= 1
        /\ ws \in { "open", "closing" } => Len(sent) = 1
        /\ \A k \in 1..Len(sent) :
              /\ sent[k].header.msg_type = "execute_request"
              /\ sent[k].content.code = << "code", 1 >>
        /\ outcome.state = promise.state
        /\ promise.state = "rejected" => outcome.reason = promise.reason
        /\ promise.state = "resolved" =>
              /\ outcome.value.id = "single"
              /\ outcome.value.hasError = codeBlocks[1].hasError
              /\ outcome.value.output = ConcatFragments(ReceivedBeforeIdle(1))
        /\ ForwardOutput(caller.onOutput, outputCalls) =
               IF caller.onOutput /\ sent # << >>
               THEN NonEmptyFragments(ReceivedBeforeIdle(1))
               ELSE << >>

\* executeCode resolved after forwarding two fragments to its caller.
C14_Witness ==
    /\ caller.entry = "executeCode"
    /\ caller.onOutput
    /\ ExecuteCodeOutcome(promise).state = "resolved"
    /\ Len(ForwardOutput(caller.onOutput, outputCalls)) = 2

\* C15: for every non-empty code string, serializing the execute request
\* built for it and parsing the text back gives a message whose
\* header.msg_type is "execute_request" and whose content.code is the
\* original string.
C15_RoundTrip ==
    client.op = "sendAndParse" =>
        /\ client.input # << >>
        /\ client.outcome.ok
        /\ client.outcome.val.t = "obj"
        /\ LET header == GetMember(client.outcome.val.v, "header")
               content == GetMember(client.outcome.val.v, "content")
           IN  /\ header.t = "obj" /\ content.t = "obj"
               /\ GetMember(header.v, "msg_type") = JStr(<< "execute_request" >>)
               /\ GetMember(content.v, "code") = JStr(client.input)

C15_Witness ==
    /\ client.op = "sendAndParse"
    /\ client.input = << DQ, BS, NL >>
    /\ client.outcome.ok

\* C16: every lifecycle operation answered with a non-2xx status throws an
\* error that carries the HTTP status and the response body.
C16_FailureCarriesStatusAndBody ==
    (client.op \in { "createKernel", "deleteKernel", "listKernels" }
     /\ client.input.fetch = "response" /\ ~Ok(client.input)) =>
        /\ client.outcome.kind = "throw"
        /\ Contains(client.outcome.message, << ToString(client.input.status) >>)
        /\ Contains(client.outcome.message, client.input.text)

\* C17: createKernel and listKernels answered with a success status and a
\* body that is not valid JSON throw the "invalid response format" error.
C17_InvalidJsonIsDistinctError ==
    (client.op \in { "createKernel", "listKernels" }
     /\ client.input.fetch = "response" /\ Ok(client.input)
     /\ ~JsonParse(client.input.text).ok) =>
        /\ client.outcome.kind = "throw"
        /\ client.outcome.name = "Error"
        /\ client.outcome.message = InvalidResponseFormat

\* The stream, result, display and error messages that may answer a request
\* of the batch.
OutputTraffic ==
    { WithParent(body, id) : body \in { b \in Bodies : b.msg_type \in OutputTypes },
                             id \in RequestIds }

\* The 1-based position of the cell whose execute request carries the id.
CellOf(id) == CHOOSE k \in 1..Len(sent) : sent[k].header.msg_id = id

\* The step handles msg by index as it would by message id: the current
\* cell is the cell of the request msg answers, that cell and no other gets
\* the error flag, and the onOutput notification names it.
AttributedById(msg) ==
    LET k == CellOf(msg.parent) IN
    /\ currentBlockIndex + 1 = k
    /\ threw' = FALSE
    /\ codeBlocks' = IF msg.msg_type = "error"
                     THEN [ codeBlocks EXCEPT ![k].hasError = "true" ]
                     ELSE codeBlocks
    /\ outputCalls' = IF onOutput /\ NewOutput(msg) # << >>
                      THEN Append(outputCalls, [ blockId |-> codeBlocks[k].id,
                                                 output |-> NewOutput(msg) ])
                      ELSE outputCalls

\* C18 as stated: whenever a stream, execute_result, display_data or error
\* message matched to a request is processed, the cell at the current index
\* is the cell of that request, and the error flag and the onOutput
\* notification go to it.
C18_AttributionCoincidesAlways ==
    [][ \A msg \in OutputTraffic :
            (msg.parent \in DOMAIN messageStatus /\ OnMessage(msg)) =>
                AttributedById(msg) ]_vars

\* C18, amended: whenever such a message is processed for a request that is
\* not yet marked done, the cell at the current index is the cell of that
\* request, and the error flag and the onOutput notification go to it.
C18_AttributionCoincides ==
    [][ \A msg \in OutputTraffic :
            (/\ msg.parent \in DOMAIN messageStatus
             /\ ~messageStatus[msg.parent].done
             /\ OnMessage(msg)) =>
                AttributedById(msg) ]_vars

\* The second cell, whose id differs from the first one's, got an error
\* message while its request was in flight, and the callback was told.
C18_Witness ==
    /\ currentBlockIndex = 1
    /\ NumBlocks >= 2
    /\ codeBlocks[1].id # codeBlocks[2].id
    /\ codeBlocks[2].hasError = "true"
    /\ codeBlocks[1].hasError # "true"
    /\ outputCalls # << >>
    /\ outputCalls[Len(outputCalls)].blockId = codeBlocks[2].id
    /\ ~messageStatus[MsgId(2)].done

\* The idle status messages that may answer a request of the batch.
IdleTraffic ==
    { WithParent(body, id) :
        body \in { b \in Bodies : b.msg_type = "status" /\ b.content.execution_state = "idle" },
        id \in RequestIds }

\* C19: an idle status matched to a request that is already marked done
\* changes nothing: not the cell index, no stored result, nothing is sent,
\* the socket is not closed and the promise not settled again; the index
\* moves one cell at a time, only on the first idle status of the request
\* of the current cell, so it counts the requests that got one.
C19_RepeatedIdleNoEffect ==
    [][ /\ \A msg \in IdleTraffic :
              (/\ msg.parent \in DOMAIN messageStatus
               /\ messageStatus[msg.parent].done
               /\ OnMessage(msg)) =>
                  (UNCHANGED Observable /\ threw' = FALSE)
        /\ currentBlockIndex' # currentBlockIndex =>
              /\ currentBlockIndex' = currentBlockIndex + 1
              /\ idleProcessed' \ idleProcessed = { RequestIdOf(currentBlockIndex) }
        /\ currentBlockIndex' = Cardinality(idleProcessed')
      ]_vars

\* A request got its idle status a second time, and the batch of two cells
\* resolved with two requests sent and one close.
C19_Witness ==
    /\ tally.idleAgain > 0
    /\ NumBlocks = 2
    /\ promise.state = "resolved"
    /\ Len(sent) = 2
    /\ closeCalls = 1

\* An idle status has been processed for each of the N requests.
AllIdle ==
    /\ Len(sent) = NumBlocks
    /\ \A k \in 1..NumBlocks : sent[k].header.msg_id \in idleProcessed

\* C20: the promise is resolved only in a state where an idle status has
\* been processed for each of the N requests, and it becomes resolved by
\* the step that processes the last one; until then it is pending, and a
\* pending promise is settled by nothing but that step, the transport's
\* error signal or its close signal, the two signals rejecting it.
C20_ResolvesOnlyAfterAllIdle ==
    [][ /\ promise'.state = "resolved" => AllIdle'
        /\ ~AllIdle' => promise'.state \in { "pending", "rejected" }
        /\ promise' # promise =>
              /\ promise.state = "pending"
              /\ promise'.state = "resolved" =>
                    (CurrentIdleStep /\ currentBlockIndex = NumBlocks - 1)
              /\ promise'.state = "rejected" <=> (ErrorSignal \/ CloseSignal)
      ]_vars

\* The last of three requests was answered, but not with an idle status,
\* and the transport's error signal rejected the promise.
C20_Witness ==
    /\ NumBlocks = 3
    /\ currentBlockIndex = 2
    /\ Len(sent) = 3
    /\ ReceivedFor(received, RequestIdOf(2)) # << >>
    /\ RequestIdOf(2) \notin idleProcessed
    /\ RejectedWith(promise, WebSocketError)

IsPrefix(a, b) == Len(a) <= Len(b) /\ SubSeq(b, 1, Len(a)) = a

\* C21: no step removes a pending-request entry: the recorded ids only
\* grow in number and never outnumber the cells of the batch, a done flag
\* never goes back to false, and the output an entry has accumulated is a
\* prefix of what it holds after the step.
C21_EntriesOnlyGrow ==
    [][ /\ DOMAIN messageStatus \subseteq DOMAIN messageStatus'
        /\ Cardinality(DOMAIN messageStatus') <= NumBlocks
        /\ \A id \in DOMAIN messageStatus :
              /\ messageStatus[id].done => messageStatus'[id].done
              /\ IsPrefix(messageStatus[id].output, messageStatus'[id].output)
      ]_vars

\* The first request is done and keeps the two fragments it was answered
\* with, in order, next to the entry of the second request.
C21_Witness ==
    /\ Cardinality(DOMAIN messageStatus) = 2
    /\ messageStatus[MsgId(1)].done
    /\ ~messageStatus[MsgId(2)].done
    /\ Len(ReceivedFor(received, MsgId(1))) = 2
    /\ messageStatus[MsgId(1)].output = ConcatFragments(ReceivedFor(received, MsgId(1)))
    /\ \A i \in 1..2 : NewOutput(ReceivedFor(received, MsgId(1))[i]) # << >>

RECURSIVE PageLinkHrefs(_), HrefsOfAll(_)
\* The hrefs of the pageLink nodes of a content tree, in document order.
PageLinkHrefs(j) ==
    IF j.t = "arr" THEN HrefsOfAll(j.v)
    ELSE IF j.t = "obj"
    THEN (IF IsStr(GetMember(j.v, "type"), << "pageLink" >>)
          THEN << Attr(j.v, "href") >> ELSE << >>)
         \o PageLinkHrefs(GetMember(j.v, "content"))
    ELSE << >>

HrefsOfAll(items) ==
    IF items = << >> THEN << >>
    ELSE PageLinkHrefs(Head(items)) \o HrefsOfAll(Tail(items))

\* The href the claim expects for a link: the public form for a listed id.
PublicHref(href, options) ==
    IF href.t = "str" /\ href.v # << >> /\ Head(href.v) = "/nota/"
       /\ IsPublished(options, Tail(href.v))
    THEN JStr(<< "/p/" >> \o Tail(href.v))
    ELSE href

\* The content tree given to processNotaContent, parsed if it was a text.
GivenTree(content) == IF content.t = "str" THEN JsonParse(content.v).val ELSE content

\* C22: in the content processNotaContent returns, the href of each
\* pageLink node is "/p/<id>" if it was "/nota/<id>" with <id> listed in
\* options.publishedSubPages, and is unchanged otherwise.
C22_PageLinksMadePublic ==
    (client.op = "processNotaContent" /\ client.outcome.kind = "return"
     /\ client.outcome.value.t # "null") =>
        LET before == PageLinkHrefs(GivenTree(client.input.content))
            after  == PageLinkHrefs(client.outcome.value)
        IN  /\ Len(after) = Len(before)
            /\ \A i \in 1..Len(before) :
                  after[i] = PublicHref(before[i], client.input.options)

\* C23: once the transport's error signal has rejected the promise, no step
\* sends an execute request, changes a cell or calls onOutput, whatever
\* arrives afterwards on the socket that is still open.
C23_FailedIsTerminal ==
    [][ (errorFired /\ RejectedWith(promise, WebSocketError) /\ ws = "open") =>
            /\ sent' = sent
            /\ codeBlocks' = codeBlocks
            /\ outputCalls' = outputCalls
      ]_vars

\* C24: once the batch has resolved, with the cell index equal to the batch
\* length, no step raises an exception, calls onOutput, changes a cell's
\* error flag or changes the results or the resolved value, whatever
\* message arrives.
C24_QuietAfterCompletion ==
    [][ (NumBlocks > 0 /\ currentBlockIndex = NumBlocks /\ promise.state = "resolved") =>
            /\ threw' = FALSE
            /\ outputCalls' = outputCalls
            /\ codeBlocks' = codeBlocks
            /\ results' = results
            /\ promise' = promise
      ]_vars

\* The fragments onOutput was given with the cell id, in call order.
CallsFor(id) == SelectSeq(outputCalls, LAMBDA c : c.blockId = id)

RECURSIVE ConcatOutputs(_)
ConcatOutputs(calls) ==
    IF calls = << >> THEN << >>
    ELSE Head(calls).output \o ConcatOutputs(Tail(calls))

\* What onOutput was told is what the results say, and it was told once
\* for each processed message with a non-empty fragment.
CallsMatchResults ==
    /\ \A k \in 1..NumBlocks :
          ConcatOutputs(CallsFor(codeBlocks[k].id)) = promise.value[k].output
    /\ \A i \in 1..Len(outputCalls) : outputCalls[i].output # << >>
    /\ Len(outputCalls) = tally.fragments

\* No fragment was processed for a request after that request's idle
\* status: what each done request has accumulated is what was stored for
\* its cell.
NoLateOutput ==
    \A k \in 1..Len(sent) :
        messageStatus[sent[k].header.msg_id].done =>
            /\ codeBlocks[k].id \in DOMAIN results
            /\ messageStatus[sent[k].header.msg_id].output = results[codeBlocks[k].id]

\* C25 as stated: for every cell of a completed batch with unique cell
\* ids, the concatenation of the fragments onOutput got with the cell's id
\* is the output of the cell's result, and onOutput was called exactly once
\* per processed message with a non-empty fragment and never with an empty
\* one.
C25_CallbackMatchesResultsAlways ==
    (promise.state = "resolved" /\ UniqueIds(codeBlocks) /\ onOutput) => CallsMatchResults

\* C25, amended: the same, for a completed batch in which no non-empty
\* fragment was processed for a request after that request's idle status.
C25_CallbackMatchesResults ==
    (promise.state = "resolved" /\ UniqueIds(codeBlocks) /\ onOutput /\ NoLateOutput) =>
        CallsMatchResults

\* A batch of two cells resolved; the one fragment, of the second cell, went to
\* the callback with that cell's id.
C25_Witness ==
    /\ promise.state = "resolved"
    /\ NumBlocks = 2
    /\ UniqueIds(codeBlocks)
    /\ onOutput
    /\ NoLateOutput
    /\ Len(CallsFor(codeBlocks[2].id)) = 1
    /\ promise.value[2].output # << >>
    /\ tally.fragments = 1

\* What the claim compares of a run: the cell index, the outputs per
\* request and per cell, the error flags and the onOutput calls.
RunView(run) ==
    << run.currentBlockIndex, run.messageStatus, run.results, run.codeBlocks,
       run.outputCalls >>

\* C26: of two runs with disjoint message ids that receive the same
\* channel, each has the cell index, outputs, error flags and onOutput
\* calls it has when the replies to the other run's requests are left out.
C26_RunsDoNotInterfere ==
    pair.started => \A r \in Runs : RunView(pair.run[r]) = RunView(pair.solo[r])

\* Both runs have completed a cell on a channel that interleaved their
\* replies, and the first one's callback was called.
C26_Witness ==
    /\ pair.started
    /\ pair.run[1].currentBlockIndex >= 1
    /\ pair.run[2].currentBlockIndex >= 1
    /\ pair.run[1].outputCalls # << >>
    /\ pair.delivered = 3

(***************************************************************************)
(* The batch on a kernel that answers.  The call is made and the socket    *)
(* opens; the kernel delivers the idle status of the request in flight;    *)
(* the transport's error and close signals come only once the last cell    *)
(* is complete.  Other traffic is delivered as long as the message budget  *)
(* leaves room for the idle statuses still to come.                        *)
(***************************************************************************)
\* The idle status of the request in flight.
CurrentIdle == WithParent(StatusMsg("idle"), RequestIdOf(currentBlockIndex))

InFlight == currentBlockIndex < NumBlocks /\ Len(sent) = currentBlockIndex + 1

RoomForNoise ==
    nMatched + nIgnored + tally.malformed + (NumBlocks - currentBlockIndex) < MaxMessages

KernelIdle == InFlight /\ OnMessage(CurrentIdle)

KernelNoise ==
    /\ RoomForNoise
    /\ \E msg \in Inbound : (InFlight => msg # CurrentIdle) /\ OnMessage(msg)

KernelMalformed == RoomForNoise /\ OnMalformedMessage

LateError == currentBlockIndex = NumBlocks /\ OnError

LateClose == currentBlockIndex = NumBlocks /\ OnClose

LiveNext ==
    \/ Call
    \/ OnOpen
    \/ KernelIdle
    \/ KernelNoise
    \/ KernelMalformed
    \/ LateError
    \/ LateClose

SpecLive ==
    /\ Init
    /\ [][LiveNext]_vars
    /\ WF_vars(Call)
    /\ WF_vars(OnOpen)
    /\ WF_vars(KernelIdle)

\* C27: a non-empty batch whose socket opens, that gets no error or close
\* signal before it is complete and whose every request is answered with
\* an idle status, eventually has its promise resolved.
C27_EventuallyResolves == (NumBlocks > 0) ~> (promise.state = "resolved")

\* A batch of two cells resolved on a kernel that also sent a message that
\* was no idle status of the request in flight.
C27_Witness ==
    /\ promise.state = "resolved"
    /\ NumBlocks = 2
    /\ ~errorFired
    /\ ws = "closing"
    /\ nMatched + nIgnored + tally.malformed = 3

\* C29: ensureWebLLMModelLoaded returns true only if a model was already
\* loaded without error or loadWebLLMModel succeeded for the chosen model,
\* the service then holding a model and no error; and it returns false
\* when loading the chosen model fails.
C29_TrueOnlyIfLoaded ==
    client.op = "ensureWebLLMModelLoaded" =>
        LET given == client.input
            out   == client.outcome
        IN  /\ out.returned =>
                  /\ \/ given.service.currentModel # "" /\ given.service.error = ""
                     \/ out.loadReturned
                  /\ out.service.currentModel # "" /\ out.service.error = ""
            /\ (out.loadCalled /\ ~out.loadReturned) => ~out.returned

\* The host starts with http:// or https://.
HasHttpScheme(ip) ==
    StartsWith(ip, << "http", "://" >>) \/ StartsWith(ip, << "http", "s", "://" >>)

\* How many schemes the URL carries.
Schemes(url) == Cardinality({ i \in 1..Len(url) : url[i] = "://" })

\* The base with the scheme http replaced by ws and https by wss.
WebSocketBase(base) ==
    IF StartsWith(base, << "http", "s", "://" >>)
    THEN << "ws", "s", "://" >> \o SubSeq(base, 4, Len(base))
    ELSE IF StartsWith(base, << "http", "://" >>)
    THEN << "ws", "://" >> \o SubSeq(base, 3, Len(base))
    ELSE base

\* C30: the base URL is the host as it is if the host starts with http://
\* or https://, and the host prefixed with http:// otherwise, followed by
\* the port; the WebSocket URL begins with that base with http replaced by
\* ws and https by wss; every derived URL carries exactly one scheme.
C30_UrlDerivation ==
    client.op = "deriveUrls" =>
        LET ip   == client.input.ip
            tail == << ":", client.input.port >>
            base == client.outcome.base
        IN  /\ base = (IF HasHttpScheme(ip) THEN ip ELSE << "http", "://" >> \o ip) \o tail
            /\ StartsWith(client.outcome.ws, WebSocketBase(base))
            /\ Schemes(base) = 1
            /\ Schemes(client.outcome.http) = 1
            /\ Schemes(client.outcome.ws) = 1

(***************************************************************************)
(* C28: selectBestAvailableProvider never changes the preferred provider   *)
(* when the currently preferred provider is in fact available, also when   *)
(* it is called while another checkAllProviders pass is still running.     *)
(***************************************************************************)
C28_KeepsAvailablePreferred ==
    [][ (ai.built /\ ai.isAvailable[ai.preferredProviderId])
            => ai'.preferredProviderId = ai.preferredProviderId ]_vars

\* The same for calls made while no pass is running: the decision then
\* follows a complete pass.
KeepsAfterCompletePass ==
    [][ (ai.built /\ ai.isAvailable[ai.preferredProviderId]
           /\ ai'.selected.decided /\ ~ai'.selected.duringPass)
            => ai'.preferredProviderId = ai.preferredProviderId ]_vars

====
